---- MODULE Spec2Model ----
(***************************************************************************)
(* A model of the AgroMind backend: the relational store (User, Farm,      *)
(* MapPoint, MapLine, MapZone, Task, FinanceMovement, Asset) and the HTTP  *)
(* handlers of src/src/routes/*.js and src/src/server.js that read and     *)
(* write it.  Every handler is an operator from (store, request) to        *)
(* (status, body, store).  In most specifications one request is served    *)
(* per step and the store (db) is all the state; the specification of      *)
(* overlapping requests keeps in inflight the requests that have read but  *)
(* not yet written, and those that were answered while another was open.   *)
(*                                                                         *)
(* Not modelled: JWT signing and verification (a token is "none", "bad" or *)
(* the user id it was signed for), password hashing, CORS, the createdAt / *)
(* updatedAt columns, and the columns of a row that no handler branches on *)
(* (Task.priority, Task.owner, FinanceMovement.note,                       *)
(* Asset.category and purchaseDate).  JWT_SECRET is set.                   *)
(***************************************************************************)
EXTENDS Integers, Sequences, FiniteSets, TLC

VARIABLES db, inflight

vars == <<db, inflight>>

(***************************************************************************)
(* Bounds of the model.                                                    *)
(***************************************************************************)
MaxUsers == 2
MaxFarms == 2
MaxTotalRows == 2

(***************************************************************************)
(* Constants of the program.                                               *)
(***************************************************************************)
MinIdLen == 8
MaxClientIdLen == 64
MaxNameLen == 80
MinPasswordLen == 8

(***************************************************************************)
(* JavaScript values as they arrive in a request body.                     *)
(***************************************************************************)
Undef == [t |-> "undefined"]
Null == [t |-> "null"]
Str(s) == [t |-> "string", v |-> s]
Num(n) == [t |-> "number", n |-> n]
NaN == [t |-> "nan"]
Infinity == [t |-> "infinity"]

Min(a, b) == IF a < b THEN a ELSE b

\* String.prototype.slice(0, n)
Slice(s, n) == SubSeq(s, 1, Min(Len(s), n))

\* String.prototype.repeat(n)
RECURSIVE Rep(_, _)
Rep(c, n) == IF n = 0 THEN "" ELSE c \o Rep(c, n - 1)

RECURSIVE TrimLeft(_)
TrimLeft(s) ==
  IF Len(s) > 0 /\ SubSeq(s, 1, 1) = " "
    THEN TrimLeft(SubSeq(s, 2, Len(s)))
    ELSE s

RECURSIVE TrimRight(_)
TrimRight(s) ==
  IF Len(s) > 0 /\ SubSeq(s, Len(s), Len(s)) = " "
    THEN TrimRight(SubSeq(s, 1, Len(s) - 1))
    ELSE s

\* String.prototype.trim()
Trim(s) == TrimRight(TrimLeft(s))

UpperLetters == "ABCDEFGHIJKLMNOPQRSTUVWXYZÁÉÍÓÚÜÑ"
LowerLetters == "abcdefghijklmnopqrstuvwxyzáéíóúüñ"

\* The lower-case letter of every upper-case letter.
LowerOf ==
  [c \in {SubSeq(UpperLetters, i, i) : i \in 1..Len(UpperLetters)} |->
     LET i == CHOOSE j \in 1..Len(UpperLetters) : SubSeq(UpperLetters, j, j) = c
     IN SubSeq(LowerLetters, i, i)]

LowerChar(c) == IF c \in DOMAIN LowerOf THEN LowerOf[c] ELSE c

RECURSIVE ToLowerCase(_)
ToLowerCase(s) ==
  IF Len(s) = 0 THEN s
  ELSE LowerChar(SubSeq(s, 1, 1)) \o ToLowerCase(SubSeq(s, 2, Len(s)))

isNonEmptyString(v) == v.t = "string" /\ Len(Trim(v.v)) > 0

cleanName(v, fallback) ==
  LET s == IF isNonEmptyString(v) THEN Trim(v.v) ELSE ""
  IN IF Len(s) > 0 THEN Slice(s, MaxNameLen) ELSE fallback

\* URL parameters are always strings.
looksLikeId(id) == isNonEmptyString(Str(id)) /\ Len(Trim(id)) >= MinIdLen

\* null when the client's id is unusable
safeClientId(v) ==
  IF ~isNonEmptyString(v) THEN Null
  ELSE LET s == Trim(v.v)
       IN IF Len(s) < MinIdLen THEN Null
          ELSE IF Len(s) > MaxClientIdLen THEN Null
          ELSE Str(s)

(***************************************************************************)
(* The store.  Server-generated ids (cuid) are drawn from a pool per       *)
(* table; every id of a pool has at least MinIdLen characters.             *)
(***************************************************************************)
IdOf(prefix, i) == prefix \o "000" \o ToString(i)

UserIds == {IdOf("user", i) : i \in 1..MaxUsers}
FarmIds == {IdOf("farm", i) : i \in 1..MaxFarms}

\* The ids the database may have generated for the rows of a child table.
RowIds(prefix) == {IdOf(prefix, i) : i \in 1..MaxTotalRows}

Ids(rows) == {r.id : r \in rows}

\* Is there an id of the pool that no row of the table has?
HasFresh(prefix, n, rows) == \E i \in 1..n : IdOf(prefix, i) \notin Ids(rows)

\* The id the database generates for a new row.
Fresh(prefix, n, rows) ==
  LET free == {i \in 1..n : IdOf(prefix, i) \notin Ids(rows)}
  IN IdOf(prefix, CHOOSE i \in free : \A j \in free : i <= j)

EmptyDb ==
  [users |-> {}, farms |-> {}, points |-> {}, lines |-> {}, zones |-> {},
   tasks |-> {}, movements |-> {}, assets |-> {}]

ChildTables == {"points", "lines", "zones", "tasks", "movements", "assets"}

TotalRows(d) ==
  Cardinality(d.points) + Cardinality(d.lines) + Cardinality(d.zones)
  + Cardinality(d.tasks) + Cardinality(d.movements) + Cardinality(d.assets)

\* What a handler returns: the HTTP status, the error text (or "ok") and the store.
Resp(status, body, d) == [status |-> status, body |-> body, db |-> d]

\* JavaScript truthiness of a request value.
Truthy(v) ==
  CASE v.t = "undefined" -> FALSE
    [] v.t = "null" -> FALSE
    [] v.t = "nan" -> FALSE
    [] v.t = "string" -> Len(v.v) > 0
    [] v.t = "number" -> v.n # 0
    [] OTHER -> TRUE

\* a ?? b
Coalesce(a, b) == IF a.t \in {"undefined", "null"} THEN b ELSE a

\* p?.field of a payload entry (undefined unless p is an object that has it)
Field(p, name) ==
  IF p.t = "object" /\ name \in DOMAIN p THEN p[name] ELSE Undef

Array(seq) == [t |-> "array", items |-> seq]

\* A field of the request body that the client may leave out.
Opt(req, name) == IF name \in DOMAIN req THEN req[name] ELSE Undef

(***************************************************************************)
(* requireAuth: the bearer token is absent ("none"), fails jwt.verify      *)
(* ("bad"), or verifies and carries the user id it was signed for; next is *)
(* the answer of the handler that next() runs.                             *)
(***************************************************************************)
requireAuth(d, req, next) ==
  IF req.token = "none" THEN Resp(401, "Sin token.", d)
  ELSE IF req.token = "bad" THEN Resp(401, "Token invalido o expirado.", d)
  ELSE next

\* An owner check that forgets the user: findFirst({ where: { id: farmId } }).
assertFarmOwnerAnyUser(d, farmId, userId) == \E f \in d.farms : f.id = farmId

\* prisma.farm.findFirst({ where: { id: farmId, userId } })
assertFarmOwner(d, farmId, userId) ==
  \E f \in d.farms : f.id = farmId /\ f.userId = userId

assertZoneOwner(d, zoneId, farmId) ==
  \E z \in d.zones : z.id = zoneId /\ z.farmId = farmId

assertAssetOwner(d, assetId, farmId) ==
  \E a \in d.assets : a.id = assetId /\ a.farmId = farmId

(***************************************************************************)
(* POST /auth/register                                                     *)
(***************************************************************************)
\* An email that is trimmed but keeps its case.
CleanEmailKeepingCase(email) == Trim(email)

\* String(email).trim().toLowerCase()
CleanEmail(email) == ToLowerCase(Trim(email))

\* prisma.user.create({ data: { email: cleanEmail, password: hashed } })
InsertUser(d, cleanEmail) ==
  [d EXCEPT !.users = @ \cup
     {[id |-> Fresh("user", Cardinality(d.users) + 1, d.users),
       email |-> cleanEmail]}]

RegisterH(d, req) ==
  IF ~Truthy(req.email) \/ ~Truthy(req.password)
    THEN Resp(400, "Email y password son obligatorios.", d)
  ELSE
    LET cleanEmail == CleanEmail(req.email.v)
    IN IF Len(req.password.v) < MinPasswordLen
         THEN Resp(400, "La contrasena debe tener al menos 8 caracteres.", d)
       ELSE IF \E u \in d.users : u.email = cleanEmail
         THEN Resp(409, "Ese email ya esta registrado.", d)
       ELSE Resp(201, "ok", InsertUser(d, cleanEmail))

(***************************************************************************)
(* GET /api/farms and POST /api/farms                                      *)
(***************************************************************************)
GetFarmsBody(d, req) == Resp(200, "ok", d)

GetFarmsH(d, req) == requireAuth(d, req, GetFarmsBody(d, req))

\* A schema without the unique index on Farm(userId, name).
FarmNameTakenNoIndex(d, userId, name) == FALSE

\* The unique index Farm_userId_name_key.
FarmNameTaken(d, userId, name) ==
  \E f \in d.farms : f.userId = userId /\ f.name = name

\* A schema without the foreign key from Farm.userId to User.id.
UserRowExistsNoFk(d, userId) == TRUE

\* The foreign key Farm_userId_fkey, as it is checked on insert.
UserRowExists(d, userId) == userId \in Ids(d.users)

PostFarmBody(d, req) ==
  LET userId == req.token
      finalName == cleanName(req.name, "Mi finca")
      finalView == Coalesce(req.view, Null)
      center == Field(finalView, "center")
      preferredCenter ==
        IF Truthy(finalView) /\ center.t = "array" THEN center ELSE Null
  IN IF FarmNameTaken(d, userId, finalName)
       THEN Resp(409, "Ya existe una finca con ese nombre.", d)
     ELSE IF ~UserRowExists(d, userId)
       \* Farm_userId_fkey refuses the row
       THEN Resp(500, "Error interno creando finca.", d)
     ELSE Resp(201, "ok",
               [d EXCEPT !.farms = @ \cup
                  {[id |-> Fresh("farm", Cardinality(d.farms) + 1, d.farms),
                    userId |-> userId,
                    name |-> finalName,
                    view |-> IF Truthy(finalView) THEN finalView ELSE Null,
                    preferredCenter |-> preferredCenter]}])

PostFarmH(d, req) == requireAuth(d, req, PostFarmBody(d, req))

(***************************************************************************)
(* The read-only routes under /api/farms/:id: map, tasks, task             *)
(* suggestions, finance movements, assets, insights, zones report.  Each   *)
(* validates the farm id, checks the owner and then only runs findMany.    *)
(***************************************************************************)
\* A read route that answers 404 for a farm that does not exist.
GetBodyRevealing(d, req) ==
  IF ~looksLikeId(req.farmId) THEN Resp(400, "farmId invalido.", d)
  ELSE IF ~(\E f \in d.farms : f.id = req.farmId)
    THEN Resp(404, "Finca no encontrada.", d)
  ELSE IF ~assertFarmOwner(d, req.farmId, req.token)
    THEN Resp(403, "Sin acceso a esa finca.", d)
  ELSE Resp(200, "ok", d)

GetBody(d, req) ==
  IF ~looksLikeId(req.farmId) THEN Resp(400, "farmId invalido.", d)
  ELSE IF ~assertFarmOwner(d, req.farmId, req.token)
    THEN Resp(403, "Sin acceso a esa finca.", d)
  ELSE Resp(200, "ok", d)

GetMapH(d, req) == requireAuth(d, req, GetBody(d, req))
GetTasksH(d, req) == requireAuth(d, req, GetBody(d, req))
GetMovementsH(d, req) == requireAuth(d, req, GetBody(d, req))
GetAssetsH(d, req) == requireAuth(d, req, GetBody(d, req))

(***************************************************************************)
(* PUT /api/farms/:id/map.  The body of the transaction is a sequence of   *)
(* writes; a write that throws leaves [ok |-> FALSE] and the rows written  *)
(* so far, and prisma.$transaction decides what becomes of them.           *)
(***************************************************************************)
\* safePoints.map((p) => safeClientId(p?.id)).filter(Boolean)
ClientIdsOf(entries) ==
  {safeClientId(Field(entries[i], "id")).v :
     i \in {j \in 1..Len(entries) : safeClientId(Field(entries[j], "id")) # Null}}

\* A save that deletes nothing when the payload names no id.
DeleteMissingUnlessNone(rows, farmId, ids) ==
  IF ids = {} THEN rows
  ELSE {r \in rows : ~(r.farmId = farmId /\ r.id \notin ids)}

\* deleteMany({ where: { farmId } }) or deleteMany({ where: { farmId, id: { notIn } } })
DeleteMissing(rows, farmId, ids) ==
  IF ids = {} THEN {r \in rows : r.farmId # farmId}
  ELSE {r \in rows : ~(r.farmId = farmId /\ r.id \notin ids)}

\* The columns written for one payload entry; zones also carry components.
EntryData(p, fallback, withComponents) ==
  LET base == [name |-> cleanName(Field(p, "name"), fallback),
               data |-> Coalesce(Field(p, "data"), p)]
  IN IF withComponents
       THEN base @@ [components |-> Coalesce(Field(p, "components"), Null)]
       ELSE base

\* create({ data: { id, farmId, ... } }): createdAt defaults to the current time
EntryRow(id, farmId, p, fallback, withComponents, now) ==
  [id |-> id, farmId |-> farmId, createdAt |-> now]
    @@ EntryData(p, fallback, withComponents)

\* A save that deletes the stored row and creates it again.
UpdateRowRecreating(r, p, fallback, withComponents, now) ==
  EntryRow(r.id, r.farmId, p, fallback, withComponents, now)

\* updateMany({ where: { id, farmId }, data }): the other columns stay
UpdateRow(r, p, fallback, withComponents, now) ==
  EntryData(p, fallback, withComponents) @@ r

\* One pass of the upsert loop: updateMany by (id, farmId), else create.
\* A generated id is new: it is the id of no row now and of no row in avoid.
UpsertOne(rows, farmId, p, prefix, fallback, withComponents, now, avoid) ==
  LET id == safeClientId(Field(p, "id"))
      data == Coalesce(Field(p, "data"), p)
      taken == rows \cup avoid
  IN IF id # Null
       THEN IF \E r \in rows : r.id = id.v /\ r.farmId = farmId
              THEN [ok |-> TRUE,
                    rows |-> {IF r.id = id.v /\ r.farmId = farmId
                                THEN UpdateRow(r, p, fallback, withComponents, now)
                                ELSE r : r \in rows}]
            \* create: the primary key refuses an id another farm's row has,
            \* and the NOT NULL "data" column refuses null
            ELSE IF id.v \in Ids(rows) \/ data = Null
              THEN [ok |-> FALSE, rows |-> rows]
            ELSE [ok |-> TRUE,
                  rows |-> rows \cup
                    {EntryRow(id.v, farmId, p, fallback, withComponents, now)}]
     ELSE IF data = Null
       THEN [ok |-> FALSE, rows |-> rows]
     ELSE [ok |-> TRUE,
           rows |-> rows \cup
             {EntryRow(Fresh(prefix, Cardinality(taken) + 1, taken), farmId, p,
                       fallback, withComponents, now)}]

RECURSIVE UpsertAll(_, _, _, _, _, _, _, _)
UpsertAll(rows, farmId, entries, prefix, fallback, withComponents, now, avoid) ==
  IF Len(entries) = 0 THEN [ok |-> TRUE, rows |-> rows]
  ELSE LET one == UpsertOne(rows, farmId, Head(entries), prefix, fallback,
                            withComponents, now, avoid)
       IN IF ~one.ok THEN one
          ELSE UpsertAll(one.rows, farmId, Tail(entries), prefix, fallback,
                         withComponents, now, avoid)

\* Delete the rows that no longer come, then upsert the payload, for one table.
SyncTable(rows, farmId, entries, prefix, fallback, withComponents, now) ==
  UpsertAll(DeleteMissing(rows, farmId, ClientIdsOf(entries)), farmId, entries,
            prefix, fallback, withComponents, now, rows)

\* tx.farm.update({ data: { view, ...(preferredCenter ? { preferredCenter } : {}) } })
UpdateView(farms, farmId, view) ==
  IF ~Truthy(view) THEN farms
  ELSE LET center == Field(view, "center")
       IN {IF f.id # farmId THEN f
           ELSE [f EXCEPT !.view = view,
                          !.preferredCenter =
                             IF center.t = "array" THEN center ELSE @] :
           f \in farms}

\* Array.isArray(points) ? points : []
SafeArray(v) == IF v.t = "array" THEN v.items ELSE <<>>

\* The steps of the callback given to prisma.$transaction, in order: the view,
\* the points, the lines, the zones.  Each returns the store as written so far
\* and whether a write threw.
TxZones(d, farmId, req) ==
  LET zns == SyncTable(d.zones, farmId, SafeArray(req.zones), "zone", "Zona", TRUE, req.now)
  IN [ok |-> zns.ok, db |-> [d EXCEPT !.zones = zns.rows]]

TxLines(d, farmId, req) ==
  LET lns == SyncTable(d.lines, farmId, SafeArray(req.lines), "line", "Linea", FALSE,
                      req.now)
  IN IF lns.ok THEN TxZones([d EXCEPT !.lines = lns.rows], farmId, req)
     ELSE [ok |-> FALSE, db |-> [d EXCEPT !.lines = lns.rows]]

TxPoints(d, farmId, req) ==
  LET pts == SyncTable(d.points, farmId, SafeArray(req.points), "pont", "Punto", FALSE,
                      req.now)
  IN IF pts.ok THEN TxLines([d EXCEPT !.points = pts.rows], farmId, req)
     ELSE [ok |-> FALSE, db |-> [d EXCEPT !.points = pts.rows]]

MapTxBody(d, farmId, req) ==
  TxPoints([d EXCEPT !.farms = UpdateView(@, farmId, req.view)], farmId, req)

\* A transaction that keeps the writes made before the throw.
TransactionNoRollback(d, tx) == tx.db

\* prisma.$transaction: commit when the callback returns, roll back when it throws.
Transaction(d, tx) == IF tx.ok THEN tx.db ELSE d

PutMapBody(d, req) ==
  IF ~looksLikeId(req.farmId) THEN Resp(400, "farmId invalido.", d)
  ELSE IF ~assertFarmOwner(d, req.farmId, req.token)
    THEN Resp(403, "Sin acceso a esa finca.", d)
  ELSE LET tx == MapTxBody(d, req.farmId, req)
       IN IF tx.ok THEN Resp(200, "ok", Transaction(d, tx))
          ELSE Resp(500, "Error interno guardando mapa.", Transaction(d, tx))

PutMapH(d, req) == requireAuth(d, req, PutMapBody(d, req))

(***************************************************************************)
(* PUT /api/farms/:farmId/zones/:zoneId/components                         *)
(***************************************************************************)
\* A handler that saves the components before it looks at the owner.
PutZoneComponentsBodyWritingFirst(d, req) ==
  LET written ==
        [d EXCEPT !.zones =
           {IF z.id = req.childId THEN [z EXCEPT !.components = req.components]
            ELSE z : z \in @}]
  IN IF ~looksLikeId(req.farmId) \/ ~looksLikeId(req.childId)
       THEN Resp(400, "IDs invalidos.", d)
     ELSE IF req.components = Undef
       THEN Resp(400, "components es requerido.", d)
     ELSE IF ~assertFarmOwner(d, req.farmId, req.token)
       THEN Resp(403, "Sin acceso a esa finca.", written)
     ELSE IF ~assertZoneOwner(d, req.childId, req.farmId)
       THEN Resp(404, "Zona no encontrada.", written)
     ELSE Resp(200, "ok", written)

PutZoneComponentsBody(d, req) ==
  IF ~looksLikeId(req.farmId) \/ ~looksLikeId(req.childId)
    THEN Resp(400, "IDs invalidos.", d)
  ELSE IF req.components = Undef
    THEN Resp(400, "components es requerido.", d)
  ELSE IF ~assertFarmOwner(d, req.farmId, req.token)
    THEN Resp(403, "Sin acceso a esa finca.", d)
  ELSE IF ~assertZoneOwner(d, req.childId, req.farmId)
    THEN Resp(404, "Zona no encontrada.", d)
  ELSE Resp(200, "ok",
            [d EXCEPT !.zones =
               {IF z.id = req.childId THEN [z EXCEPT !.components = req.components]
                ELSE z : z \in @}])

PutZoneComponentsH(d, req) == requireAuth(d, req, PutZoneComponentsBody(d, req))

(***************************************************************************)
(* Dates.  A stored instant is a whole number of days since 1970-01-01     *)
(* (the handlers store 12:00 UTC of a day).                                *)
(***************************************************************************)
IsDigit(c) == c \in {"0", "1", "2", "3", "4", "5", "6", "7", "8", "9"}

Digit(c) ==
  CASE c = "0" -> 0 [] c = "1" -> 1 [] c = "2" -> 2 [] c = "3" -> 3
    [] c = "4" -> 4 [] c = "5" -> 5 [] c = "6" -> 6 [] c = "7" -> 7
    [] c = "8" -> 8 [] c = "9" -> 9

AllDigits(s) == \A i \in 1..Len(s) : IsDigit(SubSeq(s, i, i))

RECURSIVE DigitsValue(_)
DigitsValue(s) ==
  IF Len(s) = 0 THEN 0
  ELSE 10 * DigitsValue(SubSeq(s, 1, Len(s) - 1)) + Digit(SubSeq(s, Len(s), Len(s)))

IsLeap(y) == (y % 4 = 0 /\ y % 100 # 0) \/ y % 400 = 0

LeapsBefore(y) == ((y - 1) \div 4) - ((y - 1) \div 100) + ((y - 1) \div 400)

DaysBeforeYear(y) == 365 * (y - 1970) + LeapsBefore(y) - LeapsBefore(1970)

DaysInMonth(y, m) ==
  CASE m = 1 -> IF IsLeap(y) THEN 29 ELSE 28
    [] m \in {3, 5, 8, 10} -> 30
    [] OTHER -> 31

RECURSIVE DaysBeforeMonth(_, _)
DaysBeforeMonth(y, m) ==
  IF m = 0 THEN 0 ELSE DaysBeforeMonth(y, m - 1) + DaysInMonth(y, m - 1)

\* Date.UTC(year, monthIndex, day, 12, 0, 0) in days: a month index outside
\* 0..11 carries into the year, a day outside the month carries into the
\* next months, and a year of 0..99 means 1900 + year.
DateUTC(year, monthIndex, day) ==
  LET y0 == IF year \in 0..99 THEN 1900 + year ELSE year
      y == y0 + (monthIndex \div 12)
      m == monthIndex % 12
  IN DaysBeforeYear(y) + DaysBeforeMonth(y, m) + (day - 1)

\* null (Null) unless the trimmed string is \d{4}-\d{2}-\d{2}
parseISODateOnlyToUTC(v) ==
  IF ~isNonEmptyString(v) THEN Null
  ELSE LET s == Trim(v.v)
       IN IF Len(s) = 10
             /\ AllDigits(SubSeq(s, 1, 4)) /\ SubSeq(s, 5, 5) = "-"
             /\ AllDigits(SubSeq(s, 6, 7)) /\ SubSeq(s, 8, 8) = "-"
             /\ AllDigits(SubSeq(s, 9, 10))
            THEN Num(DateUTC(DigitsValue(SubSeq(s, 1, 4)),
                             DigitsValue(SubSeq(s, 6, 7)) - 1,
                             DigitsValue(SubSeq(s, 9, 10))))
          ELSE Null

(***************************************************************************)
(* Tasks                                                                   *)
(***************************************************************************)
MaxZoneLen == 120

\* isNonEmptyString(zone) ? zone.trim().slice(0, 120) : null
CleanZone(v) == IF isNonEmptyString(v) THEN Str(Slice(Trim(v.v), MaxZoneLen)) ELSE Null

PostTaskBody(d, req) ==
  IF ~looksLikeId(req.farmId) THEN Resp(400, "farmId invalido.", d)
  ELSE IF ~assertFarmOwner(d, req.farmId, req.token)
    THEN Resp(403, "Sin acceso a esa finca.", d)
  ELSE
    LET finalTitle == cleanName(req.title, "")
        startDate == parseISODateOnlyToUTC(req.start)
        dueDate == parseISODateOnlyToUTC(req.due)
    IN IF finalTitle = "" THEN Resp(400, "title es requerido.", d)
       ELSE IF startDate = Null THEN Resp(400, "start debe ser YYYY-MM-DD.", d)
       ELSE IF dueDate = Null THEN Resp(400, "due debe ser YYYY-MM-DD.", d)
       ELSE IF startDate.n > dueDate.n
         THEN Resp(400, "start no puede ser posterior a due.", d)
       ELSE Resp(201, "ok",
                 [d EXCEPT !.tasks = @ \cup
                    {[id |-> Fresh("task", Cardinality(d.tasks) + 1, d.tasks),
                      farmId |-> req.farmId,
                      title |-> finalTitle,
                      zone |-> CleanZone(req.zone),
                      type |-> cleanName(Opt(req, "type"), "Mantenimiento"),
                      status |-> cleanName(req.status, "Pendiente"),
                      start |-> startDate.n,
                      due |-> dueDate.n]}])

PostTaskH(d, req) == requireAuth(d, req, PostTaskBody(d, req))

\* A lookup by id alone: findFirst({ where: { id: taskId } }).
FindTaskAnyFarm(d, taskId, farmId) == {t \in d.tasks : t.id = taskId}

\* prisma.task.findFirst({ where: { id: taskId, farmId } })
FindTask(d, taskId, farmId) == {t \in d.tasks : t.id = taskId /\ t.farmId = farmId}

\* A PUT that takes a date the body does not carry from the body's other date.
NextDatesIgnoringStored(existing, startDate, dueDate) ==
  [start |-> IF startDate # Undef THEN startDate.n
             ELSE IF dueDate # Undef THEN dueDate.n ELSE existing.start,
   due |-> IF dueDate # Undef THEN dueDate.n
           ELSE IF startDate # Undef THEN startDate.n ELSE existing.due]

\* nextStart / nextDue: the parsed date when the body has one, else the stored one.
NextDates(existing, startDate, dueDate) ==
  [start |-> IF startDate = Undef THEN existing.start ELSE startDate.n,
   due |-> IF dueDate = Undef THEN existing.due ELSE dueDate.n]

\* The data object of the update: the columns the body names, cleaned.
TaskData(req) ==
  [title |-> IF req.title # Undef THEN Str(cleanName(req.title, "")) ELSE Undef,
   zone |-> IF req.zone # Undef THEN [set |-> TRUE, to |-> CleanZone(req.zone)]
            ELSE [set |-> FALSE],
   type |-> IF Opt(req, "type") # Undef
              THEN Str(cleanName(Opt(req, "type"), "Mantenimiento")) ELSE Undef,
   status |-> IF req.status # Undef THEN Str(cleanName(req.status, "Pendiente"))
              ELSE Undef,
   start |-> IF req.start # Undef THEN parseISODateOnlyToUTC(req.start) ELSE Undef,
   due |-> IF req.due # Undef THEN parseISODateOnlyToUTC(req.due) ELSE Undef]

\* prisma.task.update({ where: { id: taskId }, data }): the columns that data
\* does not name keep the value the row has when the update runs.
UpdateTaskRow(tasks, taskId, data) ==
  {IF t.id # taskId THEN t
   ELSE [t EXCEPT
           !.title = IF data.title # Undef THEN data.title.v ELSE @,
           !.zone = IF data.zone.set THEN data.zone.to ELSE @,
           !.type = IF data.type # Undef THEN data.type.v ELSE @,
           !.status = IF data.status # Undef THEN data.status.v ELSE @,
           !.start = IF data.start # Undef THEN data.start.n ELSE @,
           !.due = IF data.due # Undef THEN data.due.n ELSE @] :
   t \in tasks}

PutTaskBody(d, req) ==
  IF ~looksLikeId(req.farmId) \/ ~looksLikeId(req.childId)
    THEN Resp(400, "IDs invalidos.", d)
  ELSE IF ~assertFarmOwner(d, req.farmId, req.token)
    THEN Resp(403, "Sin acceso a esa finca.", d)
  ELSE IF FindTask(d, req.childId, req.farmId) = {}
    THEN Resp(404, "Tarea no encontrada.", d)
  ELSE
    LET existing == CHOOSE t \in FindTask(d, req.childId, req.farmId) : TRUE
        finalTitle == cleanName(req.title, "")
        \* Undef when the body has no date, Null when it has an unusable one
        startDate == IF req.start = Undef THEN Undef ELSE parseISODateOnlyToUTC(req.start)
        dueDate == IF req.due = Undef THEN Undef ELSE parseISODateOnlyToUTC(req.due)
    IN IF req.title # Undef /\ finalTitle = "" THEN Resp(400, "title invalido.", d)
       ELSE IF startDate = Null THEN Resp(400, "start debe ser YYYY-MM-DD.", d)
       ELSE IF dueDate = Null THEN Resp(400, "due debe ser YYYY-MM-DD.", d)
       ELSE
         LET nxt == NextDates(existing, startDate, dueDate)
         IN IF nxt.start > nxt.due
              THEN Resp(400, "start no puede ser posterior a due.", d)
            ELSE Resp(200, "ok",
                      [d EXCEPT !.tasks = UpdateTaskRow(@, req.childId, TaskData(req))])

PutTaskH(d, req) == requireAuth(d, req, PutTaskBody(d, req))

DeleteTaskBody(d, req) ==
  IF ~looksLikeId(req.farmId) \/ ~looksLikeId(req.childId)
    THEN Resp(400, "IDs invalidos.", d)
  ELSE IF ~assertFarmOwner(d, req.farmId, req.token)
    THEN Resp(403, "Sin acceso a esa finca.", d)
  ELSE IF FindTask(d, req.childId, req.farmId) = {}
    THEN Resp(404, "Tarea no encontrada.", d)
  ELSE Resp(200, "ok", [d EXCEPT !.tasks = {t \in @ : t.id # req.childId}])

DeleteTaskH(d, req) == requireAuth(d, req, DeleteTaskBody(d, req))

(***************************************************************************)
(* Finance movements                                                       *)
(***************************************************************************)
MaxConceptLen == 160
MaxCategoryLen == 80

Contains(hay, needle) ==
  \E i \in 1..(Len(hay) - Len(needle) + 1) :
    SubSeq(hay, i, i + Len(needle) - 1) = needle

StartsWith(s, prefix) ==
  Len(s) >= Len(prefix) /\ SubSeq(s, 1, Len(prefix)) = prefix

RECURSIVE RemoveCommas(_)
RemoveCommas(s) ==
  IF Len(s) = 0 THEN s
  ELSE (IF SubSeq(s, 1, 1) = "," THEN "" ELSE SubSeq(s, 1, 1))
       \o RemoveCommas(SubSeq(s, 2, Len(s)))

\* Number(s) of a string: surrounding blanks are ignored, the empty string is 0,
\* a run of digits with an optional sign is its value, anything else is NaN.
\* (Decimal points, exponents and radix prefixes are not among the inputs.)
StringToNumber(str) ==
  LET s == Trim(str)
  IN IF Len(s) = 0 THEN Num(0)
     ELSE IF AllDigits(s) THEN Num(DigitsValue(s))
     ELSE IF Len(s) > 1 /\ SubSeq(s, 1, 1) = "-" /\ AllDigits(SubSeq(s, 2, Len(s)))
       THEN Num(0 - DigitsValue(SubSeq(s, 2, Len(s))))
     ELSE IF s = "Infinity" THEN Infinity
     ELSE NaN

\* Number(v)
ToNumber(v) ==
  CASE v.t \in {"number", "nan", "infinity"} -> v
    [] v.t = "string" -> StringToNumber(v.v)
    [] v.t = "null" -> Num(0)
    [] v.t = "boolean" -> Num(IF v.b THEN 1 ELSE 0)
    [] OTHER -> NaN

\* null (Null) unless v is a finite number >= 0, or a string that Number() reads as one
parseAmount(v) ==
  LET n == IF v.t \in {"number", "nan", "infinity"} THEN v
           ELSE IF v.t = "string" THEN StringToNumber(Trim(RemoveCommas(v.v)))
           ELSE NaN
  IN IF n.t = "nan" THEN Null
     ELSE IF n.t = "infinity" THEN Null
     ELSE IF n.n < 0 THEN Null
     ELSE n

normalizeType(v) ==
  LET s == IF isNonEmptyString(v) THEN Trim(v.v) ELSE ""
  IN IF s = "Ingreso" THEN Str("Ingreso")
     ELSE IF s = "Gasto" THEN Str("Gasto")
     ELSE Null

\* normalize("NFD") and the removal of the combining marks, on the accented
\* letters of Spanish
AccentedLetters == "áéíóúüñ"
PlainLetters == "aeiouun"

\* The plain letter of every accented letter.
PlainOf ==
  [c \in {SubSeq(AccentedLetters, i, i) : i \in 1..Len(AccentedLetters)} |->
     LET i == CHOOSE j \in 1..Len(AccentedLetters) : SubSeq(AccentedLetters, j, j) = c
     IN SubSeq(PlainLetters, i, i)]

StripChar(c) == IF c \in DOMAIN PlainOf THEN PlainOf[c] ELSE c

RECURSIVE StripAccents(_)
StripAccents(s) ==
  IF Len(s) = 0 THEN s
  ELSE StripChar(SubSeq(s, 1, 1)) \o StripAccents(SubSeq(s, 2, Len(s)))

\* String(s || "").toLowerCase().normalize("NFD").replace(/[\u0300-\u036f]/g, "").trim()
normalizeText(s) == Trim(StripAccents(ToLowerCase(s)))

KeywordDict ==
  << [keys |-> {"urea", "fertiliz", "abono"}, category |-> "Fertilizantes"],
     [keys |-> {"concentrado", "alimento", "balanceado"}, category |-> "Alimentación"],
     [keys |-> {"diesel", "diésel", "gasolina", "combustible"}, category |-> "Transporte"],
     [keys |-> {"vacuna", "desparas", "vitamina"}, category |-> "Sanidad"],
     [keys |-> {"manguera", "riego", "aspersor", "bomba"}, category |-> "Riego"],
     [keys |-> {"repuesto", "mantenimiento", "taller"}, category |-> "Mantenimiento"] >>

keywordCategory(concept, category) ==
  LET cat == IF isNonEmptyString(Str(category)) THEN Trim(category) ELSE "General"
      hay == normalizeText(concept \o " " \o cat)
      hits == {i \in 1..Len(KeywordDict) :
                 \E k \in KeywordDict[i].keys : Contains(hay, normalizeText(k))}
  IN IF cat # "General" THEN cat
     ELSE IF hits # {}
       THEN KeywordDict[CHOOSE i \in hits : \A j \in hits : i <= j].category
     ELSE cat

\* Only date-only strings and instants given as numbers are among the inputs;
\* a falsy value and any other string give null.
parseDateAnyToUTC(v) ==
  IF ~Truthy(v) THEN Null
  ELSE IF v.t = "string" THEN parseISODateOnlyToUTC(Str(Trim(v.v)))
  ELSE IF v.t = "number" THEN v
  ELSE Null

CleanConcept(v) == IF isNonEmptyString(v) THEN Slice(Trim(v.v), MaxConceptLen) ELSE ""

RawCategory(v) ==
  IF isNonEmptyString(v) THEN Slice(Trim(v.v), MaxCategoryLen) ELSE "General"

MaxInvoiceLen == 60

\* isNonEmptyString(invoiceNumber) ? invoiceNumber.trim().slice(0, 60) : null
CleanInvoiceNumber(v) ==
  IF isNonEmptyString(v) THEN Str(Slice(Trim(v.v), MaxInvoiceLen)) ELSE Null

PostMovementBody(d, req) ==
  IF ~looksLikeId(req.farmId) THEN Resp(400, "farmId invalido.", d)
  ELSE IF ~assertFarmOwner(d, req.farmId, req.token)
    THEN Resp(403, "Sin acceso a esa finca.", d)
  ELSE
    LET finalConcept == CleanConcept(req.concept)
        finalCategory == keywordCategory(finalConcept, RawCategory(req.category))
        finalType == normalizeType(req.type)
        finalAmount == parseAmount(req.amount)
        finalDate == Coalesce(parseDateAnyToUTC(req.date), Num(req.now))
    IN IF finalConcept = "" THEN Resp(400, "concept es requerido.", d)
       ELSE IF finalType = Null THEN Resp(400, "type debe ser Ingreso o Gasto.", d)
       ELSE IF finalAmount = Null
         THEN Resp(400, "amount invalido (debe ser numero >= 0).", d)
       ELSE Resp(201, "ok",
                 [d EXCEPT !.movements = @ \cup
                    {[id |-> Fresh("movt", Cardinality(d.movements) + 1, d.movements),
                      farmId |-> req.farmId,
                      date |-> finalDate.n,
                      concept |-> finalConcept,
                      category |-> finalCategory,
                      type |-> finalType.v,
                      amount |-> finalAmount.n,
                      invoiceNumber |-> CleanInvoiceNumber(Opt(req, "invoiceNumber"))]}])

PostMovementH(d, req) == requireAuth(d, req, PostMovementBody(d, req))

FindMovement(d, movementId, farmId) ==
  {m \in d.movements : m.id = movementId /\ m.farmId = farmId}

PutMovementBody(d, req) ==
  IF ~looksLikeId(req.farmId) \/ ~looksLikeId(req.childId)
    THEN Resp(400, "IDs invalidos.", d)
  ELSE IF ~assertFarmOwner(d, req.farmId, req.token)
    THEN Resp(403, "Sin acceso a esa finca.", d)
  ELSE IF FindMovement(d, req.childId, req.farmId) = {}
    THEN Resp(404, "Movimiento no encontrado.", d)
  ELSE
    LET existing == CHOOSE m \in FindMovement(d, req.childId, req.farmId) : TRUE
        finalConcept == CleanConcept(req.concept)
        nextConcept == IF req.concept # Undef THEN finalConcept ELSE existing.concept
        nextCategory ==
          IF req.category # Undef THEN RawCategory(req.category) ELSE existing.category
        finalType == normalizeType(req.type)
        finalAmount == parseAmount(req.amount)
        finalDate == parseDateAnyToUTC(req.date)
    IN IF req.concept # Undef /\ finalConcept = ""
         THEN Resp(400, "concept invalido.", d)
       ELSE IF req.type # Undef /\ finalType = Null
         THEN Resp(400, "type debe ser Ingreso o Gasto.", d)
       ELSE IF req.amount # Undef /\ finalAmount = Null
         THEN Resp(400, "amount invalido (debe ser numero >= 0).", d)
       ELSE IF req.date # Undef /\ finalDate = Null
         THEN Resp(400, "date invalida.", d)
       ELSE
         LET updated ==
               [existing EXCEPT
                  !.concept = nextConcept,
                  !.category = IF req.concept # Undef \/ req.category # Undef
                                 THEN keywordCategory(nextConcept, nextCategory)
                                 ELSE @,
                  !.type = IF req.type # Undef THEN finalType.v ELSE @,
                  !.amount = IF req.amount # Undef THEN finalAmount.n ELSE @,
                  !.date = IF req.date # Undef THEN finalDate.n ELSE @,
                  !.invoiceNumber =
                     IF Opt(req, "invoiceNumber") # Undef
                       THEN CleanInvoiceNumber(Opt(req, "invoiceNumber")) ELSE @]
         IN Resp(200, "ok",
                 [d EXCEPT !.movements =
                    {m \in @ : m.id # req.childId} \cup {updated}])

PutMovementH(d, req) == requireAuth(d, req, PutMovementBody(d, req))

DeleteMovementBody(d, req) ==
  IF ~looksLikeId(req.farmId) \/ ~looksLikeId(req.childId)
    THEN Resp(400, "IDs invalidos.", d)
  ELSE IF ~assertFarmOwner(d, req.farmId, req.token)
    THEN Resp(403, "Sin acceso a esa finca.", d)
  ELSE IF FindMovement(d, req.childId, req.farmId) = {}
    THEN Resp(404, "Movimiento no encontrado.", d)
  ELSE Resp(200, "ok", [d EXCEPT !.movements = {m \in @ : m.id # req.childId}])

DeleteMovementH(d, req) == requireAuth(d, req, DeleteMovementBody(d, req))

(***************************************************************************)
(* Assets                                                                  *)
(***************************************************************************)
MaxAssetNameLen == 120
MaxUsefulLifeYears == 50

CleanAssetName(v) == IF isNonEmptyString(v) THEN Slice(Trim(v.v), MaxAssetNameLen) ELSE ""

\* !Number.isFinite(uly) || uly <= 0 || uly > 50
BadUsefulLife(n) == n.t # "number" \/ n.n <= 0 \/ n.n > MaxUsefulLifeYears

PostAssetBody(d, req) ==
  IF ~looksLikeId(req.farmId) THEN Resp(400, "farmId invalido.", d)
  ELSE IF ~assertFarmOwner(d, req.farmId, req.token)
    THEN Resp(403, "Sin acceso a esa finca.", d)
  ELSE
    LET finalName == CleanAssetName(req.name)
        pv == parseAmount(req.purchaseValue)
        rv == IF req.residualValue \in {Undef, Null} THEN Num(0)
              ELSE parseAmount(req.residualValue)
        uly == IF req.usefulLifeYears \in {Undef, Null} THEN Num(1)
               ELSE ToNumber(req.usefulLifeYears)
    IN IF finalName = "" THEN Resp(400, "name es requerido.", d)
       ELSE IF pv = Null THEN Resp(400, "purchaseValue invalido.", d)
       ELSE IF rv = Null THEN Resp(400, "residualValue invalido.", d)
       ELSE IF BadUsefulLife(uly) THEN Resp(400, "usefulLifeYears invalido (1-50).", d)
       ELSE Resp(201, "ok",
                 [d EXCEPT !.assets = @ \cup
                    {[id |-> Fresh("asst", Cardinality(d.assets) + 1, d.assets),
                      farmId |-> req.farmId,
                      name |-> finalName,
                      purchaseValue |-> pv.n,
                      usefulLifeYears |-> uly.n,
                      residualValue |-> rv.n]}])

PostAssetH(d, req) == requireAuth(d, req, PostAssetBody(d, req))

PutAssetBody(d, req) ==
  IF ~looksLikeId(req.farmId) \/ ~looksLikeId(req.childId)
    THEN Resp(400, "IDs invalidos.", d)
  ELSE IF ~assertFarmOwner(d, req.farmId, req.token)
    THEN Resp(403, "Sin acceso a esa finca.", d)
  ELSE IF ~assertAssetOwner(d, req.childId, req.farmId)
    THEN Resp(404, "Activo no encontrado.", d)
  ELSE
    LET existing == CHOOSE a \in d.assets : a.id = req.childId
        finalName == CleanAssetName(req.name)
        pv == parseAmount(req.purchaseValue)
        uly == ToNumber(req.usefulLifeYears)
        rv == IF req.residualValue = Null THEN Num(0) ELSE parseAmount(req.residualValue)
    IN IF req.name # Undef /\ finalName = "" THEN Resp(400, "name invalido.", d)
       ELSE IF req.purchaseValue # Undef /\ pv = Null
         THEN Resp(400, "purchaseValue invalido.", d)
       ELSE IF req.usefulLifeYears # Undef /\ BadUsefulLife(uly)
         THEN Resp(400, "usefulLifeYears invalido (1-50).", d)
       ELSE IF req.residualValue # Undef /\ rv = Null
         THEN Resp(400, "residualValue invalido.", d)
       ELSE
         LET updated ==
               [existing EXCEPT
                  !.name = IF req.name # Undef THEN finalName ELSE @,
                  !.purchaseValue = IF req.purchaseValue # Undef THEN pv.n ELSE @,
                  !.usefulLifeYears = IF req.usefulLifeYears # Undef THEN uly.n ELSE @,
                  !.residualValue = IF req.residualValue # Undef THEN rv.n ELSE @]
         IN Resp(200, "ok",
                 [d EXCEPT !.assets = {a \in @ : a.id # req.childId} \cup {updated}])

PutAssetH(d, req) == requireAuth(d, req, PutAssetBody(d, req))

DeleteAssetBody(d, req) ==
  IF ~looksLikeId(req.farmId) \/ ~looksLikeId(req.childId)
    THEN Resp(400, "IDs invalidos.", d)
  ELSE IF ~assertFarmOwner(d, req.farmId, req.token)
    THEN Resp(403, "Sin acceso a esa finca.", d)
  ELSE IF ~assertAssetOwner(d, req.childId, req.farmId)
    THEN Resp(404, "Activo no encontrado.", d)
  ELSE Resp(200, "ok", [d EXCEPT !.assets = {a \in @ : a.id # req.childId}])

DeleteAssetH(d, req) == requireAuth(d, req, DeleteAssetBody(d, req))

(***************************************************************************)
(* POST /api/investigator/analyze (server.js).  The route is registered    *)
(* without requireAuth and never looks the farm up.  req.ai is what the    *)
(* external vision service answers.                                        *)
(***************************************************************************)
normalizeDataUrl(v) ==
  LET s == IF Truthy(v) /\ v.t = "string" THEN Trim(v.v) ELSE ""
  IN IF ~StartsWith(s, "data:image/") THEN Null
     ELSE IF ~Contains(s, ";base64,") THEN Null
     ELSE Str(s)

InvestigateH(d, req) ==
  IF ~Truthy(req.farmId) THEN Resp(400, "farmId es requerido.", d)
  ELSE IF normalizeDataUrl(req.imageDataUrl) = Null
    THEN Resp(400, "imageDataUrl invalido.", d)
  ELSE IF req.ai = "ok" THEN Resp(200, "ok", d)
  ELSE IF req.ai = "network" THEN Resp(502, "No se pudo conectar con OpenAI (network).", d)
  ELSE Resp(500, "Falta OPENAI_API_KEY en el .env del backend.", d)

(***************************************************************************)
(* The foreign keys of the schema, all ON DELETE CASCADE: deleting a Farm  *)
(* row deletes its rows in the tables below, deleting a User row deletes   *)
(* the user's farms.                                                       *)
(***************************************************************************)
\* A schema in which Asset_farmId_fkey does not cascade.
CascadeAllButAssets == {"points", "lines", "zones", "tasks", "movements"}

CascadeFromFarm == {"points", "lines", "zones", "tasks", "movements", "assets"}

\* The rows of a table that survive the deletion of the farms in gone.
Surviving(d, table, gone) ==
  IF table \in CascadeFromFarm THEN {r \in d[table] : r.farmId \notin gone}
  ELSE d[table]

DeleteFarms(d, gone) ==
  [users |-> d.users,
   farms |-> {f \in d.farms : f.id \notin gone},
   points |-> Surviving(d, "points", gone),
   lines |-> Surviving(d, "lines", gone),
   zones |-> Surviving(d, "zones", gone),
   tasks |-> Surviving(d, "tasks", gone),
   movements |-> Surviving(d, "movements", gone),
   assets |-> Surviving(d, "assets", gone)]

\* DELETE FROM "Farm" WHERE id = farmId
DeleteFarmRowDb(d, farmId) == DeleteFarms(d, {farmId})

\* DELETE FROM "User" WHERE id = userId (Farm_userId_fkey cascades)
DeleteUserRowDb(d, userId) ==
  LET d1 == DeleteFarms(d, {f.id : f \in {g \in d.farms : g.userId = userId}})
  IN [d1 EXCEPT !.users = {u \in @ : u.id # userId}]

(***************************************************************************)
(* The derived endpoints: GET finance/insights, GET tasks/suggestions and  *)
(* GET zones/report compute their answer from the rows of the farm and the *)
(* clock (req.now, the day new Date() falls on).  Amounts are whole        *)
(* numbers, so a ratio is kept as numerator and denominator and compared   *)
(* by cross multiplication.  A month key "YYYY-MM" is the number           *)
(* 12 * year + monthIndex.                                                 *)
(***************************************************************************)
\* findMany without the farm in its where clause
FarmRowsAnyFarm(d, table, farmId) == d[table]

\* findMany({ where: { farmId } })
FarmRows(d, table, farmId) == {r \in d[table] : r.farmId = farmId}

Max(a, b) == IF a > b THEN a ELSE b

YearOf(n) ==
  CHOOSE y \in (1970 + n \div 366)..(1970 + n \div 365) :
    DaysBeforeYear(y) <= n /\ n < DaysBeforeYear(y + 1)

MonthIndexOf(n) ==
  LET y == YearOf(n)
      dayOfYear == n - DaysBeforeYear(y)
  IN CHOOSE m \in 0..11 :
       DaysBeforeMonth(y, m) <= dayOfYear /\ dayOfYear < DaysBeforeMonth(y, m + 1)

DayOfMonth(n) == n - DateUTC(YearOf(n), MonthIndexOf(n), 1) + 1

Pad(n, width) == Rep("0", width - Len(ToString(n))) \o ToString(n)

\* d.toISOString().slice(0, 10)
toYYYYMMDD(n) ==
  Pad(YearOf(n), 4) \o "-" \o Pad(MonthIndexOf(n) + 1, 2) \o "-" \o Pad(DayOfMonth(n), 2)

monthKeyUTC(n) == 12 * YearOf(n) + MonthIndexOf(n)
prevMonthKey(k) == k - 1
startOfMonthUTC(n) == DateUTC(YearOf(n), MonthIndexOf(n), 1)
startOfNextMonthUTC(n) == DateUTC(YearOf(n), MonthIndexOf(n) + 1, 1)

\* The database hands out the ids of the pool in the order of creation, so the
\* id of a movement stands for its createdAt.
IdIndex(id) == DigitsValue(SubSeq(id, 5, Len(id)))

Newer(a, b) == a.date > b.date \/ (a.date = b.date /\ IdIndex(a.id) > IdIndex(b.id))

\* orderBy: [{ date: "desc" }, { createdAt: "desc" }]
RECURSIVE ByDateDesc(_)
ByDateDesc(ms) ==
  IF ms = {} THEN <<>>
  ELSE LET first == CHOOSE m \in ms : \A o \in ms \ {m} : Newer(m, o)
       IN <<first>> \o ByDateDesc(ms \ {first})

Range(seq) == {seq[i] : i \in 1..Len(seq)}

RECURSIVE SelectSeqBy(_, _)
\* seq.filter(x => x \in keep)
SelectSeqBy(seq, keep) ==
  IF Len(seq) = 0 THEN <<>>
  ELSE (IF Head(seq) \in keep THEN <<Head(seq)>> ELSE <<>>) \o SelectSeqBy(Tail(seq), keep)

RECURSIVE Total(_)
Total(ms) ==
  IF ms = {} THEN 0
  ELSE LET m == CHOOSE x \in ms : TRUE IN m.amount + Total(ms \ {m})

Ratio(num, den) == [num |-> num, den |-> den]

sumByType(ms) ==
  LET ingresos == Total({m \in ms : m.type = "Ingreso"})
      gastos == Total({m \in ms : m.type = "Gasto"})
      balance == ingresos - gastos
  IN [ingresos |-> ingresos, gastos |-> gastos, balance |-> balance,
      margen |-> IF ingresos > 0 THEN Ratio(balance * 100, ingresos) ELSE Ratio(0, 1)]

CategoryOf(m) == keywordCategory(m.concept, m.category)

\* The keys of a Map in insertion order: the first occurrences of a sequence.
RECURSIVE FirstOccurrences(_)
FirstOccurrences(seq) ==
  IF Len(seq) = 0 THEN <<>>
  ELSE LET front == FirstOccurrences(SubSeq(seq, 1, Len(seq) - 1))
           last == seq[Len(seq)]
       IN IF last \in Range(front) THEN front ELSE Append(front, last)

\* Array.prototype.sort((a, b) => b.total - a.total), which is stable
SortByTotalDesc(es) ==
  LET Rank(i) ==
        Cardinality({j \in 1..Len(es) :
                       es[j].total > es[i].total \/ (es[j].total = es[i].total /\ j < i)})
  IN [k \in 1..Len(es) |-> es[CHOOSE i \in 1..Len(es) : Rank(i) = k - 1]]

MaxTopCategories == 3

TopCategories(monthMovs) ==
  LET cats == FirstOccurrences([i \in 1..Len(monthMovs) |-> CategoryOf(monthMovs[i])])
      entries == [i \in 1..Len(cats) |->
                    [category |-> cats[i],
                     total |-> Total({m \in Range(monthMovs) : CategoryOf(m) = cats[i]})]]
  IN SubSeq(SortByTotalDesc(entries), 1, Min(MaxTopCategories, Len(cats)))

GenericConcepts == {"compra", "venta", "gasto", "ingreso"}

DuplicateKey(m) == <<toYYYYMMDD(m.date), m.amount, normalizeText(m.concept)>>

Audit(monthMovs) ==
  LET ms == Range(monthMovs)
  IN [missingCategory |-> Cardinality({m \in ms : ~isNonEmptyString(Str(m.category))}),
      tooGeneralCategory |-> Cardinality({m \in ms : m.category = "General"}),
      genericConcept |->
        Cardinality({m \in ms : normalizeText(m.concept) \in GenericConcepts}),
      possibleDuplicates |-> Cardinality(ms) - Cardinality({DuplicateKey(m) : m \in ms}),
      invoiceMissing |->
        Cardinality({m \in ms : m.type = "Gasto" /\ ~isNonEmptyString(m.invoiceNumber)})]

MinCategoryCount == 3
MaxAnomalies == 6
MaxSuggestions == 8

\* A rule that reports every movement above the average of its category.
UnusualAboveAverage(m, monthMovs) ==
  LET same == {o \in Range(monthMovs) : CategoryOf(o) = CategoryOf(m)}
      n == Cardinality(same)
      sum == Total(same)
  IN n >= MinCategoryCount /\ sum > 0 /\ m.amount * n > sum

\* amount > 2.5 * (sum / n), with avg > 0
Unusual(m, monthMovs) ==
  LET same == {o \in Range(monthMovs) : CategoryOf(o) = CategoryOf(m)}
      n == Cardinality(same)
      sum == Total(same)
  IN n >= MinCategoryCount /\ sum > 0 /\ 2 * m.amount * n > 5 * sum

\* Monday of the week of a day (1970-01-01 was a Thursday)
WeekStart(n) == n - ((n + 3) % 7)

RECURSIVE SumOver(_, _)
SumOver(keys, f) ==
  IF keys = {} THEN 0
  ELSE LET k == CHOOSE x \in keys : TRUE IN f[k] + SumOver(keys \ {k}, f)

\* maxW > 1.8 * avgW over the weeks with a Gasto, when there are two or more
WeeklyPeak(monthMovs) ==
  LET gastos == {m \in Range(monthMovs) : m.type = "Gasto"}
      weeks == {WeekStart(m.date) : m \in gastos}
      perWeek == [w \in weeks |-> Total({m \in gastos : WeekStart(m.date) = w})]
      sum == SumOver(weeks, perWeek)
  IN /\ Cardinality(weeks) >= 2
     /\ sum > 0
     /\ \E w \in weeks : 10 * perWeek[w] * Cardinality(weeks) > 18 * sum

Anomaly(title, movementId) == [title |-> title, movementId |-> movementId]

When(cond, x) == IF cond THEN <<x>> ELSE <<>>

Anomalies(monthMovs, prevMovs) ==
  LET unusual == SelectSeqBy(monthMovs, {m \in Range(monthMovs) : Unusual(m, monthMovs)})
      prevCats == {CategoryOf(m) : m \in prevMovs}
      top == TopCategories(monthMovs)
  IN [i \in 1..Len(unusual) |-> Anomaly("Movimiento inusual", unusual[i].id)]
     \o When(Audit(monthMovs).possibleDuplicates > 0, Anomaly("Posibles duplicados", ""))
     \o When(\E i \in 1..Len(top) : top[i].category \notin prevCats,
             Anomaly("Categoría nueva", ""))
     \o When(WeeklyPeak(monthMovs), Anomaly("Pico semanal", ""))

BaseScore == 50

\* Math.max(0, Math.min(100, Math.round(score))) of a whole number
ClampScore(score) == Max(0, Min(100, score))

RawScore(cur, variation, audit) ==
  BaseScore
  + (IF cur.balance > 0 THEN 15 ELSE 0)
  + (IF cur.ingresos > 0 /\ cur.margen.num >= 20 * cur.margen.den THEN 10 ELSE 0)
  - (IF cur.ingresos > 0 /\ cur.margen.num < 0 THEN 15 ELSE 0)
  + (IF variation.balance > 0 THEN 8 ELSE 0)
  - (IF audit.tooGeneralCategory > 3 THEN 8 ELSE 0)
  - (IF audit.missingCategory > 0 THEN 6 ELSE 0)
  - (IF audit.possibleDuplicates > 0 THEN 6 ELSE 0)
  - (IF audit.invoiceMissing > 2 THEN 6 ELSE 0)

\* A score that is the base plus the margin in percent, not clamped.
HealthScoreByMargin(cur, variation, audit) ==
  BaseScore + (cur.margen.num \div cur.margen.den)

HealthScore(cur, variation, audit) == ClampScore(RawScore(cur, variation, audit))

\* The average balance of the last three months that have movements.
Projection(movements) ==
  LET months == {monthKeyUTC(m.date) : m \in movements}
      last3 == {k \in months : Cardinality({j \in months : j > k}) < 3}
      balanceOf == [k \in last3 |->
                      sumByType({m \in movements : monthKeyUTC(m.date) = k}).balance]
  IN IF last3 = {} THEN Ratio(0, 1)
     ELSE Ratio(SumOver(last3, balanceOf), Cardinality(last3))

\* t.zone || ""
ZoneText(z) == IF z.t = "string" THEN z.v ELSE ""

\* Some task of the farm that is not "Completada" has one of the keywords in
\* its title or zone.
hasActiveTaskLike(tasks, kws) ==
  LET keys == {normalizeText(k) : k \in kws} \ {""}
  IN \E t \in tasks :
       /\ t.status # "Completada"
       /\ \E k \in keys : Contains(normalizeText(t.title \o " " \o ZoneText(t.zone)), k)

topHas(top, names) ==
  \E w \in {normalizeText(n) : n \in names} :
    \E i \in 1..Len(top) : normalizeText(top[i].category) = w

Payload(title, zone, today) ==
  [title |-> title, zone |-> zone, start |-> today, due |-> today, status |-> "Pendiente"]

Suggestion(code, title, payload) == [code |-> code, title |-> title, actionPayload |-> payload]

\* comp.a || comp.b || ... of the components of a zone
AnyTruthy(components, names) ==
  components.t = "object" /\ \E n \in names : Truthy(Field(components, n))

ZoneName(z) == IF isNonEmptyString(Str(z.name)) THEN Trim(z.name) ELSE ""

\* The rows of a findMany without orderBy, in the order the database returns
\* them: the order of creation.
RECURSIVE ByCreation(_)
ByCreation(rows) ==
  IF rows = {} THEN <<>>
  ELSE LET first == CHOOSE r \in rows : \A o \in rows : r.createdAt <= o.createdAt
       IN <<first>> \o ByCreation(rows \ {first})

\* pushSug: a suggestion whose code, title and message were pushed before is dropped
DropRepeated(seq) == FirstOccurrences(seq)

ZoneSuggestions(z, top, tasks, today) ==
  LET zoneName == ZoneName(z)
      hasAnimals == AnyTruthy(z.components, {"animales", "animal", "animals", "ganado"})
      hasCrops == AnyTruthy(z.components, {"cultivos", "cultivo", "crops", "plantas"})
  IN IF zoneName = "" THEN <<>>
     ELSE When(hasAnimals /\ topHas(top, {"sanidad"})
                 /\ ~hasActiveTaskLike(tasks, {"sanidad"}),
               Suggestion("MAP_FIN_SANIDAD", "Chequeo sanitario (" \o zoneName \o ")",
                          Payload("Chequeo sanitario - " \o zoneName, zoneName, today)))
          \o When(hasCrops /\ topHas(top, {"fertilizantes"})
                    /\ ~hasActiveTaskLike(tasks, {"fertiliz"}),
                  Suggestion("MAP_FIN_FERT", "Revisión nutricional (" \o zoneName \o ")",
                             Payload("Revisión nutricional - " \o zoneName, zoneName, today)))

RECURSIVE AllZoneSuggestions(_, _, _, _)
AllZoneSuggestions(zones, top, tasks, today) ==
  IF Len(zones) = 0 THEN <<>>
  ELSE ZoneSuggestions(Head(zones), top, tasks, today)
       \o AllZoneSuggestions(Tail(zones), top, tasks, today)

FinanceSuggestions(monthMovs, cur, audit, top, zones, tasks, today) ==
  DropRepeated(
    When(Len(monthMovs) = 0,
         Suggestion("FIN_BOOT", "Activar finanzas del mes",
                    Payload("Registrar movimientos iniciales del mes", "", today)))
    \o When(audit.invoiceMissing > 0 /\ ~hasActiveTaskLike(tasks, {"factura", "recibo"}),
            Suggestion("FIN_INVOICE_MISSING", "Completar facturas faltantes",
                       Payload("Completar facturas faltantes en gastos", "", today)))
    \o When((audit.missingCategory > 0 \/ audit.tooGeneralCategory > 0)
              /\ ~hasActiveTaskLike(tasks, {"categoria", "categoría"}),
            Suggestion("FIN_FIX_CATEGORIES", "Ordenar categorías",
                       Payload("Auditar categorías de movimientos", "", today)))
    \o When(audit.possibleDuplicates > 0
              /\ ~hasActiveTaskLike(tasks, {"duplicad", "repetid"}),
            Suggestion("FIN_DUPLICATES", "Revisar posibles duplicados",
                       Payload("Revisar duplicados en movimientos", "", today)))
    \o When(cur.ingresos > 0 /\ cur.margen.num < 10 * cur.margen.den
              /\ ~hasActiveTaskLike(tasks, {"margen", "costos", "coste"}),
            Suggestion("FIN_LOW_MARGIN", "Mejorar margen",
                       Payload("Revisión de costos para mejorar margen", "", today)))
    \o When(topHas(top, {"transporte", "combustible"})
              /\ ~hasActiveTaskLike(tasks, {"rutas", "combustible"}),
            Suggestion("FIN_HIGH_TRANSPORT", "Optimizar rutas",
                       Payload("Optimizar rutas y consumo de combustible", "", today)))
    \o When(topHas(top, {"alimentacion", "alimentación"})
              /\ ~hasActiveTaskLike(tasks, {"aliment"}),
            Suggestion("FIN_HIGH_FEED", "Revisar eficiencia de alimentación",
                       Payload("Revisar eficiencia de alimentación", "", today)))
    \o When(topHas(top, {"fertilizantes", "abono", "fertiliz"})
              /\ ~hasActiveTaskLike(tasks, {"fertiliz", "abono"}),
            Suggestion("FIN_HIGH_FERT", "Optimizar plan de fertilización",
                       Payload("Optimizar plan de fertilización por zona", "", today)))
    \o When(topHas(top, {"venta", "ventas"})
              /\ ~hasActiveTaskLike(tasks, {"ventas", "clientes", "producto"}),
            Suggestion("FIN_SALES_ORDER", "Ordenar registro de ventas",
                       Payload("Mejorar detalle de registro de ventas", "", today)))
    \o AllZoneSuggestions(zones, top, tasks, today))

\* The body of the 200 answer of GET /api/farms/:id/finance/insights.
Insights(d, farmId, now) ==
  LET movements == FarmRows(d, "movements", farmId)
      zones == ByCreation(FarmRows(d, "zones", farmId))
      tasks == FarmRows(d, "tasks", farmId)
      thisMonth == monthKeyUTC(now)
      monthMovs ==
        ByDateDesc({m \in movements :
                      m.date >= startOfMonthUTC(now) /\ m.date < startOfNextMonthUTC(now)})
      prevMovs == {m \in movements : monthKeyUTC(m.date) = prevMonthKey(thisMonth)}
      cur == sumByType(Range(monthMovs))
      prev == sumByType(prevMovs)
      variation == [ingresos |-> cur.ingresos - prev.ingresos,
                    gastos |-> cur.gastos - prev.gastos,
                    balance |-> cur.balance - prev.balance]
      top == TopCategories(monthMovs)
      audit == Audit(monthMovs)
      anomalies == Anomalies(monthMovs, prevMovs)
      suggestions ==
        FinanceSuggestions(monthMovs, cur, audit, top, zones, tasks, toYYYYMMDD(now))
  IN [summary |-> cur @@ [month |-> thisMonth, variationVsPrev |-> variation],
      topCategories |-> top,
      anomalies |-> SubSeq(anomalies, 1, Min(MaxAnomalies, Len(anomalies))),
      healthScore |-> HealthScore(cur, variation, audit),
      projection30 |-> Projection(movements),
      audit |-> audit,
      suggestions |-> SubSeq(suggestions, 1, Min(MaxSuggestions, Len(suggestions)))]


GetInsightsH(d, req) ==
  LET r == requireAuth(d, req, GetBody(d, req))
  IN IF r.status = 200 THEN r @@ [data |-> Insights(d, req.farmId, req.now)] ELSE r

(***************************************************************************)
(* GET /api/farms/:id/tasks/suggestions                                    *)
(***************************************************************************)
RECURSIVE JoinItems(_)
\* String(x) of a request value
ToStringJs(v) ==
  CASE v.t = "string" -> v.v
    [] v.t = "number" -> ToString(v.n)
    [] v.t = "array" -> JoinItems(v.items)
    [] v.t = "object" -> "[object Object]"
    [] OTHER -> v.t

JoinItems(items) ==
  IF Len(items) = 0 THEN ""
  ELSE IF Len(items) = 1 THEN ToStringJs(items[1])
  ELSE ToStringJs(items[1]) \o "," \o JoinItems(Tail(items))

\* The keys of an object, in a fixed order.
RECURSIVE KeysOf(_)
KeysOf(keys) ==
  IF keys = {} THEN <<>>
  ELSE LET k == CHOOSE x \in keys : TRUE IN <<k>> \o KeysOf(keys \ {k})

\* What listFromUnknown pushes for one entry of an object.
EntryItems(k, v) ==
  IF v.t = "boolean" /\ v.b THEN <<Str(k)>>
  ELSE IF v.t = "number" /\ v.n > 0 THEN <<Str(k \o " (" \o ToString(v.n) \o ")")>>
  ELSE IF v.t = "string" /\ Len(Trim(v.v)) > 0 THEN <<Str(Trim(v.v))>>
  ELSE IF v.t = "object" /\ (Truthy(Field(v, "name")) \/ Truthy(Field(v, "tipo")))
    THEN <<Str(ToStringJs(IF Truthy(Field(v, "name")) THEN Field(v, "name")
                          ELSE Field(v, "tipo")))>>
  ELSE <<>>

RECURSIVE ObjectItems(_, _)
ObjectItems(x, keys) ==
  IF Len(keys) = 0 THEN <<>>
  ELSE EntryItems(Head(keys), x[Head(keys)]) \o ObjectItems(x, Tail(keys))

listFromUnknown(x) ==
  IF ~Truthy(x) THEN <<>>
  ELSE IF x.t = "array" THEN x.items
  ELSE IF x.t = "string" THEN <<x>>
  ELSE IF x.t = "object" THEN ObjectItems(x, KeysOf(DOMAIN x \ {"t"}))
  ELSE <<>>

RECURSIVE firstNonEmptyList(_, _)
firstNonEmptyList(c, names) ==
  IF Len(names) = 0 THEN <<>>
  ELSE IF Len(listFromUnknown(Field(c, Head(names)))) > 0
    THEN listFromUnknown(Field(c, Head(names)))
  ELSE firstNonEmptyList(c, Tail(names))

MaxComponentItems == 12

RECURSIVE NonBlankTexts(_)
NonBlankTexts(items) ==
  IF Len(items) = 0 THEN <<>>
  ELSE LET text == IF Truthy(Head(items)) THEN Trim(ToStringJs(Head(items))) ELSE ""
       IN (IF text = "" THEN <<>> ELSE <<text>>) \o NonBlankTexts(Tail(items))

\* arr.map(x => String(x || "").trim()).filter(Boolean).slice(0, 12)
cleanArr(items) ==
  SubSeq(NonBlankTexts(items), 1, Min(MaxComponentItems, Len(NonBlankTexts(items))))

extractComponents(components) ==
  LET c == IF components.t \in {"object", "array"} THEN components ELSE [t |-> "object"]
      crops == firstNonEmptyList(c, <<"cultivos", "cultivo", "crops", "crop", "plantas",
                                      "planta">>)
      animals == firstNonEmptyList(c, <<"animales", "animal", "animals", "animalList",
                                        "ganado">>)
      other == IF Len(crops) = 0 /\ Len(animals) = 0 THEN listFromUnknown(c) ELSE <<>>
  IN [crops |-> cleanArr(crops), animals |-> cleanArr(animals), other |-> cleanArr(other)]

hasSimilarActiveTask(tasks, zoneName, keywords) ==
  LET zn == normalizeText(zoneName)
      keys == {normalizeText(k) : k \in keywords} \ {""}
  IN \E t \in tasks :
       /\ t.status # "Completada"
       /\ zn # "" => normalizeText(ZoneText(t.zone)) = zn
       /\ \E k \in keys : Contains(normalizeText(t.title \o " " \o t.type), k)

MaxSuggestionIdLen == 180

\* `crop_${zoneName}_${crop}`.slice(0, 180) and the like
SuggestionId(prefix, parts) == Slice(prefix \o parts, MaxSuggestionIdLen)

TaskSuggestion(id, code, zone, title, message, payload) ==
  [id |-> id, code |-> code, zone |-> zone, title |-> title, message |-> message,
   actionPayload |-> payload]

TaskPayload(title, zone, type, start, due) ==
  [title |-> title, zone |-> zone, type |-> type, start |-> start, due |-> due,
   status |-> "Pendiente"]

RECURSIVE CropSuggestions(_, _, _, _)
CropSuggestions(crops, zoneName, tasks, today) ==
  IF Len(crops) = 0 THEN <<>>
  ELSE When(~hasSimilarActiveTask(tasks, zoneName, {"abonar", "fertiliz", Head(crops)}),
            TaskSuggestion(SuggestionId("crop_", zoneName \o "_" \o Head(crops)),
                           "ZONE_COMPONENT_CROP", Str(zoneName),
                           "Acción recomendada para cultivo",
                           "Zona \"" \o zoneName
                             \o "\": revisar y planificar labores para el cultivo ("
                             \o Head(crops) \o ").",
                           TaskPayload("Revisión de cultivo (" \o Head(crops) \o ")",
                                       zoneName, "Mantenimiento", today, today)))
       \o CropSuggestions(Tail(crops), zoneName, tasks, today)

RECURSIVE AnimalSuggestions(_, _, _, _)
AnimalSuggestions(animals, zoneName, tasks, today) ==
  IF Len(animals) = 0 THEN <<>>
  ELSE When(~hasSimilarActiveTask(tasks, zoneName, {"aliment", "agua", Head(animals)}),
            TaskSuggestion(SuggestionId("animal_feed_", zoneName \o "_" \o Head(animals)),
                           "ZONE_COMPONENT_ANIMAL_FEED", Str(zoneName),
                           "Rutina de animales",
                           "Zona \"" \o zoneName
                             \o "\": revisar agua y alimentación para ("
                             \o Head(animals) \o ").",
                           TaskPayload("Revisar agua/alimento (" \o Head(animals) \o ")",
                                       zoneName, "Alimentación", today, today)))
       \o AnimalSuggestions(Tail(animals), zoneName, tasks, today)

ComponentSuggestions(z, tasks, today) ==
  LET zoneName == ZoneName(z)
      parts == extractComponents(z.components)
  IN IF zoneName = "" THEN <<>>
     ELSE CropSuggestions(parts.crops, zoneName, tasks, today)
          \o AnimalSuggestions(parts.animals, zoneName, tasks, today)
          \o When(/\ Len(parts.crops) = 0 /\ Len(parts.animals) = 0
                  /\ Len(parts.other) > 0
                  /\ ~hasSimilarActiveTask(tasks, zoneName, {"inspeccion", "revision"}),
                  TaskSuggestion(SuggestionId("zone_other_", zoneName),
                                 "ZONE_COMPONENT_OTHER", Str(zoneName),
                                 "Inspección por componentes",
                                 "Zona \"" \o zoneName \o "\": hay componentes registrados.",
                                 TaskPayload("Inspección preventiva (" \o zoneName \o ")",
                                             zoneName, "Mantenimiento", today, today)))

RECURSIVE AllComponentSuggestions(_, _, _)
AllComponentSuggestions(zones, tasks, today) ==
  IF Len(zones) = 0 THEN <<>>
  ELSE ComponentSuggestions(Head(zones), tasks, today)
       \o AllComponentSuggestions(Tail(zones), tasks, today)

\* t.zone || null
ZoneOrNull(z) == IF Truthy(z) THEN z ELSE Null

DueSoonDays == 2

DueSoon(t, now) ==
  LET diffDays == t.due - now
  IN When(t.status # "Completada" /\ diffDays >= 0 /\ diffDays <= DueSoonDays,
          TaskSuggestion("due_soon_" \o t.id, "DUE_SOON", ZoneOrNull(t.zone),
                         IF diffDays = 0 THEN "Vence hoy" ELSE "Vence pronto",
                         IF diffDays = 0
                           THEN "La tarea \"" \o t.title \o "\" vence hoy."
                           ELSE "La tarea \"" \o t.title \o "\" vence en "
                                \o ToString(diffDays) \o " día(s).",
                         TaskPayload("Seguimiento: " \o t.title, ZoneText(t.zone), t.type,
                                     toYYYYMMDD(t.start), toYYYYMMDD(t.due))))

Overdue(t, now) ==
  LET diffDays == now - t.due
  IN When(t.status # "Completada" /\ diffDays >= 1,
          TaskSuggestion("overdue_" \o t.id, "OVERDUE", ZoneOrNull(t.zone),
                         "Tarea atrasada",
                         "La tarea \"" \o t.title \o "\" está atrasada por "
                           \o ToString(diffDays) \o " día(s).",
                         TaskPayload("Reprogramar: " \o t.title, ZoneText(t.zone), t.type,
                                     toYYYYMMDD(t.start), toYYYYMMDD(now))))

\* The tasks of the farm in the order the database returns them; the id of a
\* task stands for its createdAt.
RECURSIVE ByIdIndex(_)
ByIdIndex(rows) ==
  IF rows = {} THEN <<>>
  ELSE LET first == CHOOSE r \in rows : \A o \in rows : IdIndex(r.id) <= IdIndex(o.id)
       IN <<first>> \o ByIdIndex(rows \ {first})

RECURSIVE DueSoonAll(_, _)
DueSoonAll(tasks, now) ==
  IF Len(tasks) = 0 THEN <<>> ELSE DueSoon(Head(tasks), now) \o DueSoonAll(Tail(tasks), now)

RECURSIVE OverdueAll(_, _)
OverdueAll(tasks, now) ==
  IF Len(tasks) = 0 THEN <<>> ELSE Overdue(Head(tasks), now) \o OverdueAll(Tail(tasks), now)

RECURSIVE EmptyZones(_, _, _)
EmptyZones(zones, tasks, today) ==
  IF Len(zones) = 0 THEN <<>>
  ELSE LET zn == ZoneName(Head(zones))
       IN When(/\ zn # ""
               /\ ~\E t \in tasks : Trim(ZoneText(t.zone)) = zn /\ t.status # "Completada",
               TaskSuggestion("zone_empty_" \o zn, "ZONE_NO_ACTIVE_TASKS", Str(zn),
                              "Zona sin tareas activas",
                              "La zona \"" \o zn \o "\" no tiene tareas activas.",
                              TaskPayload("Inspección preventiva - " \o zn, zn,
                                          "Mantenimiento", today, today)))
            \o EmptyZones(Tail(zones), tasks, today)

MinPendingForWarning == 5

pushSuggestionKey(s) == <<s.code, ZoneText(s.zone), s.title, s.message>>

\* pushSuggestion: a suggestion whose key was seen before is dropped
RECURSIVE DropSeen(_)
DropSeen(seq) ==
  IF Len(seq) = 0 THEN <<>>
  ELSE LET front == DropSeen(SubSeq(seq, 1, Len(seq) - 1))
           last == seq[Len(seq)]
       IN IF \E i \in 1..Len(front) : pushSuggestionKey(front[i]) = pushSuggestionKey(last)
            THEN front ELSE Append(front, last)

\* The body of the 200 answer of GET /api/farms/:id/tasks/suggestions.
TaskSuggestions(d, farmId, now) ==
  LET tasks == FarmRows(d, "tasks", farmId)
      ordered == ByIdIndex(tasks)
      zones == ByCreation(FarmRows(d, "zones", farmId))
      today == toYYYYMMDD(now)
      pendingCount == Cardinality({t \in tasks : t.status = "Pendiente"})
  IN [suggestions |->
        DropSeen(AllComponentSuggestions(zones, tasks, today)
                 \o DueSoonAll(ordered, now)
                 \o EmptyZones(zones, tasks, today)
                 \o When(pendingCount >= MinPendingForWarning,
                         TaskSuggestion("too_many_pending_" \o ToString(pendingCount),
                                        "TOO_MANY_PENDING", Null,
                                        "Carga alta de pendientes",
                                        "Tenés " \o ToString(pendingCount)
                                          \o " tareas en estado \"Pendiente\".",
                                        Null))
                 \o OverdueAll(ordered, now))]

GetTaskSuggestionsH(d, req) ==
  LET r == requireAuth(d, req, GetBody(d, req))
  IN IF r.status = 200 THEN r @@ [data |-> TaskSuggestions(d, req.farmId, req.now)] ELSE r

(***************************************************************************)
(* GET /api/farms/:id/zones/report.  The active tasks of a zone are given  *)
(* as the set of their ids; the order the answer lists them in is not      *)
(* modelled.                                                               *)
(***************************************************************************)
ZoneReport(z, tasksActive) ==
  LET zoneName == ZoneName(z)
      zoneTasks == {t \in tasksActive :
                      normalizeText(ZoneText(t.zone)) = normalizeText(zoneName)}
      c == IF z.components.t \in {"object", "array"} THEN z.components ELSE [t |-> "object"]
  IN [id |-> z.id, name |-> zoneName, createdAt |-> z.createdAt, components |-> c,
      hasAnimals |-> AnyTruthy(c, {"animales", "animal", "animals", "ganado"}),
      hasCrops |-> AnyTruthy(c, {"cultivos", "cultivo", "crops", "plantas"}),
      activeTasksCount |-> Cardinality(zoneTasks),
      activeTasks |-> {t.id : t \in zoneTasks}]

\* The body of the 200 answer of GET /api/farms/:id/zones/report.
ZonesReport(d, farmId) ==
  LET farm == CHOOSE f \in d.farms : f.id = farmId
      zones == ByCreation(FarmRows(d, "zones", farmId))
      tasksActive == {t \in FarmRows(d, "tasks", farmId) : t.status # "Completada"}
  IN [farm |-> [id |-> farm.id, name |-> farm.name],
      zonesCount |-> Len(zones),
      activeTasksCount |-> Cardinality(tasksActive),
      report |-> [i \in 1..Len(zones) |-> ZoneReport(zones[i], tasksActive)]]

GetZonesReportH(d, req) ==
  LET r == requireAuth(d, req, GetBody(d, req))
  IN IF r.status = 200 THEN r @@ [data |-> ZonesReport(d, req.farmId)] ELSE r

(***************************************************************************)
(* Dispatch of a request to its handler.                                   *)
(***************************************************************************)
Handle(d, req) ==
  CASE req.op = "Register" -> RegisterH(d, req)
    [] req.op = "GetFarms" -> GetFarmsH(d, req)
    [] req.op = "PostFarm" -> PostFarmH(d, req)
    [] req.op = "GetMap" -> GetMapH(d, req)
    [] req.op = "PutMap" -> PutMapH(d, req)
    [] req.op = "PutZoneComponents" -> PutZoneComponentsH(d, req)
    [] req.op = "GetTasks" -> GetTasksH(d, req)
    [] req.op = "GetTaskSuggestions" -> GetTaskSuggestionsH(d, req)
    [] req.op = "PostTask" -> PostTaskH(d, req)
    [] req.op = "PutTask" -> PutTaskH(d, req)
    [] req.op = "DeleteTask" -> DeleteTaskH(d, req)
    [] req.op = "GetMovements" -> GetMovementsH(d, req)
    [] req.op = "PostMovement" -> PostMovementH(d, req)
    [] req.op = "PutMovement" -> PutMovementH(d, req)
    [] req.op = "DeleteMovement" -> DeleteMovementH(d, req)
    [] req.op = "GetAssets" -> GetAssetsH(d, req)
    [] req.op = "PostAsset" -> PostAssetH(d, req)
    [] req.op = "PutAsset" -> PutAssetH(d, req)
    [] req.op = "DeleteAsset" -> DeleteAssetH(d, req)
    [] req.op = "GetInsights" -> GetInsightsH(d, req)
    [] req.op = "GetZonesReport" -> GetZonesReportH(d, req)
    [] req.op = "Investigate" -> InvestigateH(d, req)

(***************************************************************************)
(* What a request is, told against the store it meets.                     *)
(***************************************************************************)
ReadOps ==
  {"GetMap", "GetTasks", "GetTaskSuggestions", "GetMovements", "GetAssets",
   "GetInsights", "GetZonesReport"}
ChildOps ==
  {"PutZoneComponents", "PutTask", "DeleteTask", "PutMovement", "DeleteMovement",
   "PutAsset", "DeleteAsset"}
CreateOps == {"PostTask", "PostMovement", "PostAsset", "PutMap"}
\* The routes under /api/farms/:id/...
FarmOps == ReadOps \cup ChildOps \cup CreateOps

\* The table a child route addresses.
TableOf(op) ==
  CASE op = "PutZoneComponents" -> "zones"
    [] op \in {"PutTask", "DeleteTask"} -> "tasks"
    [] op \in {"PutMovement", "DeleteMovement"} -> "movements"
    [] op \in {"PutAsset", "DeleteAsset"} -> "assets"

\* The farm a request names: in the URL, or in the body for the investigator.
FarmIdOf(req) ==
  IF req.op \in FarmOps THEN req.farmId
  ELSE IF req.op = "Investigate" /\ req.farmId.t = "string" THEN req.farmId.v
  ELSE "-"

\* "anon": no valid token; "owner": the token's user owns the named farm;
\* "foreign": the farm exists and has another userId; "nofarm": no such farm.
Access(d, req) ==
  IF "token" \notin DOMAIN req THEN "na"
  ELSE IF req.token \in {"none", "bad"} THEN "anon"
  ELSE IF FarmIdOf(req) = "-" THEN "na"
  ELSE IF \E f \in d.farms : f.id = FarmIdOf(req) /\ f.userId = req.token THEN "owner"
  ELSE IF \E f \in d.farms : f.id = FarmIdOf(req) THEN "foreign"
  ELSE "nofarm"

\* "own": the addressed row is a row of the URL's farm; "other": it is a row of
\* another farm; "none": no row has that id.
Child(d, req) ==
  IF req.op \notin ChildOps THEN "na"
  ELSE IF \E r \in d[TableOf(req.op)] : r.id = req.childId /\ r.farmId = req.farmId
    THEN "own"
  ELSE IF \E r \in d[TableOf(req.op)] : r.id = req.childId THEN "other"
  ELSE "none"

\* "badid": the child id of the URL has fewer than MinIdLen characters;
\* "nobody": a zone-components request without components.
Shape(req) ==
  IF req.op \in ChildOps /\ Len(req.childId) < MinIdLen THEN "badid"
  ELSE IF req.op = "PutZoneComponents" /\ req.components = Undef THEN "nobody"
  ELSE "ok"

WithinBounds(d) ==
  /\ Cardinality(d.users) <= MaxUsers
  /\ Cardinality(d.farms) <= MaxFarms
  /\ TotalRows(d) <= MaxTotalRows

(***************************************************************************)
(* The requests of the model.                                              *)
(***************************************************************************)
Tokens == {"none", "bad"} \cup UserIds
\* "farm9" is too short to look like an id
UrlFarmIds == FarmIds \cup {"farm9"}
ClientPointId == "clientpt1"
ClientZoneId == "clientzn1"
UrlChildIds(prefix) == RowIds(prefix) \cup {"x1"}

Today == DateUTC(2024, 2, 15)

ViewA == [t |-> "object", zoom |-> Num(14), center |-> Array(<<Num(10), Num(20)>>)]
ViewB == [t |-> "object", zoom |-> Num(9)]
ComponentsA == [t |-> "object", cultivos |-> Str("cafe")]

Entry(id, name) == [t |-> "object", id |-> id, name |-> name]

RegisterBodies ==
  {[email |-> Str(e), password |-> Str("password1")] : e \in {"a@x.io", "b@x.io"}}
FarmBodies == {[name |-> Undef, view |-> Undef]}
MapBodies ==
  {[view |-> Undef, points |-> Undef, lines |-> Undef, zones |-> Undef, now |-> Today],
   [view |-> Undef, points |-> Array(<<Entry(Str(ClientPointId), Str("A"))>>),
    lines |-> Undef, zones |-> Undef, now |-> Today],
   [view |-> Undef, points |-> Undef, lines |-> Array(<<Entry(Undef, Str("L"))>>),
    zones |-> Undef, now |-> Today],
   [view |-> Undef, points |-> Undef, lines |-> Undef,
    zones |-> Array(<<Entry(Str(ClientZoneId), Undef)>>), now |-> Today]}
ComponentsBodies == {[components |-> Undef], [components |-> ComponentsA]}
TaskBodies ==
  {[title |-> Str("Podar"), zone |-> Undef, status |-> Undef,
    start |-> Str("2024-01-10"), due |-> Str("2024-01-20")]}
TaskPatches ==
  {[title |-> Undef, zone |-> Undef, status |-> Str("Completada"),
    start |-> Undef, due |-> Undef]}
MovementBodies ==
  {[date |-> Undef, concept |-> Str("urea"), category |-> Undef,
    type |-> Str("Gasto"), amount |-> Num(5), now |-> Today]}
MovementPatches ==
  {[date |-> Undef, concept |-> Undef, category |-> Undef, type |-> Undef,
    amount |-> Num(7)]}
AssetBodies ==
  {[name |-> Str("bomba"), purchaseValue |-> Num(100), usefulLifeYears |-> Undef,
    residualValue |-> Undef]}
AssetPatches ==
  {[name |-> Undef, purchaseValue |-> Undef, usefulLifeYears |-> Num(5),
    residualValue |-> Undef]}
InvestigateBodies ==
  {[farmId |-> f, imageDataUrl |-> Str(img), ai |-> ai] :
     f \in {Undef} \cup {Str(id) : id \in FarmIds},
     img \in {"data:image/png;base64,AAAA", "http://x/y.png"},
     ai \in {"ok", "network"}}

\* The requests of a route: every token, every farm id, every body.
FarmReqs(op, bodies) ==
  {[op |-> op, token |-> tok, farmId |-> f] @@ b :
     tok \in Tokens, f \in UrlFarmIds, b \in bodies}
ChildReqs(op, prefix, extraIds, bodies) ==
  {[op |-> op, token |-> tok, farmId |-> f, childId |-> c] @@ b :
     tok \in Tokens, f \in UrlFarmIds, c \in UrlChildIds(prefix) \cup extraIds,
     b \in bodies}
NoBody == {<<>>}
\* A request to a derived endpoint meets the clock of the server.
ClockBodies == {[now |-> Today]}

\* The requests of Spec to the routes under /api/farms/:id/...
ReadRequests == UNION {FarmReqs(op, ClockBodies) : op \in ReadOps}
ChildRequests ==
  ChildReqs("PutZoneComponents", "zone", {ClientZoneId}, ComponentsBodies)
  \cup ChildReqs("PutTask", "task", {}, TaskPatches)
  \cup ChildReqs("DeleteTask", "task", {}, NoBody)
  \cup ChildReqs("PutMovement", "movt", {}, MovementPatches)
  \cup ChildReqs("DeleteMovement", "movt", {}, NoBody)
  \cup ChildReqs("PutAsset", "asst", {}, AssetPatches)
  \cup ChildReqs("DeleteAsset", "asst", {}, NoBody)
CreateRequests ==
  FarmReqs("PutMap", MapBodies) \cup FarmReqs("PostTask", TaskBodies)
  \cup FarmReqs("PostMovement", MovementBodies) \cup FarmReqs("PostAsset", AssetBodies)
FarmRequests == ReadRequests \cup ChildRequests \cup CreateRequests
InvestigateRequests ==
  {[op |-> "Investigate", token |-> tok] @@ b : tok \in Tokens, b \in InvestigateBodies}

(***************************************************************************)
(* The actions: one per route, plus the two row deletions of the schema.   *)
(* A request is served in one step: its handler runs to the response and   *)
(* the store becomes the one it leaves; a step that would take the store   *)
(* past the bounds of the model is not taken.                              *)
(***************************************************************************)
Register(bodies) ==
  \E b \in bodies :
    LET r == RegisterH(db, [op |-> "Register"] @@ b)
    IN WithinBounds(r.db) /\ db' = r.db /\ UNCHANGED inflight

GetFarms ==
  \E tok \in Tokens :
    LET r == GetFarmsH(db, [op |-> "GetFarms", token |-> tok])
    IN WithinBounds(r.db) /\ db' = r.db /\ UNCHANGED inflight

PostFarm(bodies) ==
  \E tok \in Tokens, b \in bodies :
    LET r == PostFarmH(db, [op |-> "PostFarm", token |-> tok] @@ b)
    IN WithinBounds(r.db) /\ db' = r.db /\ UNCHANGED inflight

GetMap ==
  \E req \in FarmReqs("GetMap", NoBody) :
    LET r == GetMapH(db, req)
    IN WithinBounds(r.db) /\ db' = r.db /\ UNCHANGED inflight

PutMap(bodies) ==
  \E req \in FarmReqs("PutMap", bodies) :
    LET r == PutMapH(db, req)
    IN WithinBounds(r.db) /\ db' = r.db /\ UNCHANGED inflight

PutZoneComponents(bodies) ==
  \E req \in ChildReqs("PutZoneComponents", "zone", {ClientZoneId}, bodies) :
    LET r == PutZoneComponentsH(db, req)
    IN WithinBounds(r.db) /\ db' = r.db /\ UNCHANGED inflight

GetTasks ==
  \E req \in FarmReqs("GetTasks", NoBody) :
    LET r == GetTasksH(db, req)
    IN WithinBounds(r.db) /\ db' = r.db /\ UNCHANGED inflight

GetTaskSuggestions ==
  \E req \in FarmReqs("GetTaskSuggestions", ClockBodies) :
    \E r \in {GetTaskSuggestionsH(db, req)} :
      WithinBounds(r.db) /\ db' = r.db /\ UNCHANGED inflight

PostTask(bodies) ==
  \E req \in FarmReqs("PostTask", bodies) :
    LET r == PostTaskH(db, req)
    IN WithinBounds(r.db) /\ db' = r.db /\ UNCHANGED inflight

PutTask(bodies) ==
  \E req \in ChildReqs("PutTask", "task", {}, bodies) :
    LET r == PutTaskH(db, req)
    IN WithinBounds(r.db) /\ db' = r.db /\ UNCHANGED inflight

DeleteTask ==
  \E req \in ChildReqs("DeleteTask", "task", {}, NoBody) :
    LET r == DeleteTaskH(db, req)
    IN WithinBounds(r.db) /\ db' = r.db /\ UNCHANGED inflight

GetMovements ==
  \E req \in FarmReqs("GetMovements", NoBody) :
    LET r == GetMovementsH(db, req)
    IN WithinBounds(r.db) /\ db' = r.db /\ UNCHANGED inflight

PostMovement(bodies) ==
  \E req \in FarmReqs("PostMovement", bodies) :
    LET r == PostMovementH(db, req)
    IN WithinBounds(r.db) /\ db' = r.db /\ UNCHANGED inflight

PutMovement(bodies) ==
  \E req \in ChildReqs("PutMovement", "movt", {}, bodies) :
    LET r == PutMovementH(db, req)
    IN WithinBounds(r.db) /\ db' = r.db /\ UNCHANGED inflight

DeleteMovement ==
  \E req \in ChildReqs("DeleteMovement", "movt", {}, NoBody) :
    LET r == DeleteMovementH(db, req)
    IN WithinBounds(r.db) /\ db' = r.db /\ UNCHANGED inflight

GetAssets ==
  \E req \in FarmReqs("GetAssets", NoBody) :
    LET r == GetAssetsH(db, req)
    IN WithinBounds(r.db) /\ db' = r.db /\ UNCHANGED inflight

PostAsset(bodies) ==
  \E req \in FarmReqs("PostAsset", bodies) :
    LET r == PostAssetH(db, req)
    IN WithinBounds(r.db) /\ db' = r.db /\ UNCHANGED inflight

PutAsset(bodies) ==
  \E req \in ChildReqs("PutAsset", "asst", {}, bodies) :
    LET r == PutAssetH(db, req)
    IN WithinBounds(r.db) /\ db' = r.db /\ UNCHANGED inflight

DeleteAsset ==
  \E req \in ChildReqs("DeleteAsset", "asst", {}, NoBody) :
    LET r == DeleteAssetH(db, req)
    IN WithinBounds(r.db) /\ db' = r.db /\ UNCHANGED inflight

GetInsights ==
  \E req \in FarmReqs("GetInsights", ClockBodies) :
    \E r \in {GetInsightsH(db, req)} :
      WithinBounds(r.db) /\ db' = r.db /\ UNCHANGED inflight

GetZonesReport ==
  \E req \in FarmReqs("GetZonesReport", ClockBodies) :
    \E r \in {GetZonesReportH(db, req)} :
      WithinBounds(r.db) /\ db' = r.db /\ UNCHANGED inflight

Investigate(bodies) ==
  \E tok \in Tokens, b \in bodies :
    LET r == InvestigateH(db, [op |-> "Investigate", token |-> tok] @@ b)
    IN WithinBounds(r.db) /\ db' = r.db /\ UNCHANGED inflight

DeleteFarmRow ==
  \E f \in db.farms : db' = DeleteFarmRowDb(db, f.id) /\ UNCHANGED inflight

DeleteUserRow ==
  \E u \in db.users : db' = DeleteUserRowDb(db, u.id) /\ UNCHANGED inflight

Init == db = EmptyDb /\ inflight = {}

Next ==
  \/ Register(RegisterBodies)
  \/ GetFarms
  \/ PostFarm(FarmBodies)
  \/ GetMap
  \/ PutMap(MapBodies)
  \/ PutZoneComponents(ComponentsBodies)
  \/ GetTasks
  \/ GetTaskSuggestions
  \/ PostTask(TaskBodies)
  \/ PutTask(TaskPatches)
  \/ DeleteTask
  \/ GetMovements
  \/ PostMovement(MovementBodies)
  \/ PutMovement(MovementPatches)
  \/ DeleteMovement
  \/ GetAssets
  \/ PostAsset(AssetBodies)
  \/ PutAsset(AssetPatches)
  \/ DeleteAsset
  \/ GetInsights
  \/ GetZonesReport
  \/ Investigate(InvestigateBodies)
  \/ DeleteFarmRow
  \/ DeleteUserRow

Spec == Init /\ [][Next]_vars

(***************************************************************************)
(* Specifications with one route family each and the inputs that exercise  *)
(* its validation; they share the store and the actions of Spec.           *)
(***************************************************************************)
OwnerBodies == {[email |-> Str("a@x.io"), password |-> Str("password1")]}
TwoFarmBodies == {[name |-> n, view |-> Undef] : n \in {Undef, Str("Lote 2")}}

\* Farm names: absent, blank, padded, not a string, of exactly MaxNameLen
\* characters and longer.
FarmNames ==
  {Undef, Null, Num(5), Str(""), Str("  "), Str("Mi finca"), Str(" Mi finca "),
   Str("Lote"), Str(Rep("a", MaxNameLen)), Str(Rep("a", MaxNameLen) \o "b"),
   Str("  " \o Rep("a", MaxNameLen) \o "c ")}
NamedFarmBodies == {[name |-> n, view |-> v] : n \in FarmNames, v \in {Undef, ViewA}}
PostFarmRequests ==
  {[op |-> "PostFarm", token |-> tok] @@ b : tok \in Tokens, b \in NamedFarmBodies}

NextFarms ==
  \/ Register(RegisterBodies)
  \/ GetFarms
  \/ PostFarm(NamedFarmBodies)
  \/ DeleteFarmRow
  \/ DeleteUserRow

SpecFarms == Init /\ [][NextFarms]_vars

\* Movement types and amounts: the two types, padded, in another case, another
\* word, not a string; amounts as numbers and as strings, negative, blank,
\* with thousands separators, not numeric.
MovementTypes ==
  {Undef, Null, Num(1), Str("Ingreso"), Str("Gasto"), Str(" Gasto "), Str("gasto"),
   Str("Otro"), Str("")}
MovementAmounts ==
  {Undef, Null, NaN, Infinity, Num(0), Num(5), Num(0 - 1), Str("12"), Str("1,000"),
   Str(" 7 "), Str("-3"), Str("abc"), Str(""), Str("  "), Str(",")}
TypedMovements ==
  {[type |-> Str("Gasto"), amount |-> a] : a \in MovementAmounts}
  \cup {[type |-> t, amount |-> Num(5)] : t \in MovementTypes}
  \cup {[type |-> Str("Otro"), amount |-> Str("abc")], [type |-> Undef, amount |-> Undef]}
TypedMovementBodies ==
  {[date |-> Undef, concept |-> Str("venta"), category |-> Undef, now |-> Today] @@ b :
     b \in TypedMovements}
TypedMovementPatches ==
  {[date |-> Undef, concept |-> Undef, category |-> Undef] @@ b : b \in TypedMovements}
MovementRequests ==
  FarmReqs("PostMovement", TypedMovementBodies)
  \cup ChildReqs("PutMovement", "movt", {}, TypedMovementPatches)

NextFinance ==
  \/ Register(OwnerBodies)
  \/ PostFarm(TwoFarmBodies)
  \/ GetMovements
  \/ PostMovement(TypedMovementBodies)
  \/ PutMovement(TypedMovementPatches)
  \/ DeleteMovement

SpecFinance == Init /\ [][NextFinance]_vars

\* Task dates: absent, in order and out of order, padded, a day and a month
\* that carry over (30 February, month 13), not a date.
TaskDates ==
  {Undef, Str("2024-01-31"), Str("2024-02-01"), Str(" 2024-02-01 "),
   Str("2024-02-30"), Str("2024-13-01"), Str("31/01/2024")}
DatedTaskBodies ==
  {[title |-> Str("Podar"), zone |-> Undef, status |-> Undef, start |-> a, due |-> b] :
     a \in TaskDates, b \in TaskDates}
DatedTaskPatches ==
  {[title |-> Undef, zone |-> Undef, status |-> Undef, start |-> a, due |-> b] :
     a \in TaskDates, b \in TaskDates}
TaskRequests ==
  FarmReqs("PostTask", DatedTaskBodies)
  \cup ChildReqs("PutTask", "task", {}, DatedTaskPatches)

NextTasks ==
  \/ Register(OwnerBodies)
  \/ PostFarm(TwoFarmBodies)
  \/ GetTasks
  \/ PostTask(DatedTaskBodies)
  \/ PutTask(DatedTaskPatches)
  \/ DeleteTask

SpecTasks == Init /\ [][NextTasks]_vars

\* Map payloads: entries with a client id and without, a null entry (which the
\* create refuses) after an entry that is written, a view.
PointLists ==
  {Undef,
   Array(<<Entry(Str(ClientPointId), Str("A"))>>),
   Array(<<Entry(Undef, Str("B"))>>),
   Array(<<Entry(Str(ClientPointId), Str("A2")), Null>>),
   Array(<<Entry(Str(ClientPointId), Str("A")), Entry(Undef, Str("B"))>>)}
LineLists == {Undef, Array(<<Entry(Undef, Str("L"))>>)}
ZoneLists ==
  {Undef,
   Array(<<Entry(Str(ClientZoneId), Undef)>>),
   Array(<<Entry(Str(ClientZoneId), Str("Z")), Null>>)}
\* The time of a save: createdAt of the rows it creates.
SaveTimes == {Today, Today + 1}
\* Every points list with every zones list; lines and a view with a few.
MapPayloads ==
  {[view |-> Undef, points |-> ps, lines |-> Undef, zones |-> zs] :
     ps \in PointLists, zs \in ZoneLists}
  \cup {[view |-> v, points |-> ps, lines |-> ls, zones |-> zs] :
          v \in {ViewA}, ps \in {Undef}, ls \in LineLists, zs \in {Undef}}
  \cup {[view |-> Undef, points |-> Array(<<Entry(Str(ClientPointId), Str("A"))>>),
          lines |-> ls, zones |-> Array(<<Entry(Str(ClientZoneId), Str("Z")), Null>>)] :
          ls \in LineLists \ {Undef}}
FullMapBodies == {p @@ [now |-> t] : p \in MapPayloads, t \in SaveTimes}
PutMapRequests == FarmReqs("PutMap", FullMapBodies)

NextMap ==
  \/ Register(OwnerBodies)
  \/ PostFarm(TwoFarmBodies)
  \/ GetMap
  \/ PutMap(FullMapBodies)
  \/ PutZoneComponents(ComponentsBodies)

SpecMap == Init /\ [][NextMap]_vars

\* Registrations: the same address as typed by different hands, another
\* address, a blank one; a password that is long enough, too short, absent.
AuthEmails ==
  {Undef, Str("a@x.io"), Str(" A@X.io "), Str("A@x.IO"), Str("b@x.io"), Str("c@x.io"),
   Str("")}
AuthPasswords == {Undef, Str("password1"), Str("short"), Str("1234567"), Str("12345678")}
AuthBodies == {[email |-> e, password |-> pw] : e \in AuthEmails, pw \in AuthPasswords}
RegisterRequests == {[op |-> "Register"] @@ b : b \in AuthBodies}

NextAuth ==
  \/ Register(AuthBodies)
  \/ GetFarms
  \/ PostFarm(TwoFarmBodies)
  \/ DeleteFarmRow
  \/ DeleteUserRow

SpecAuth == Init /\ [][NextAuth]_vars

(***************************************************************************)
(* A specification for the finance insights: one farm with its ledger of   *)
(* movements, a zone and a task.  The ledger has its own bound, since the  *)
(* rules of the insights need three movements of one month.                *)
(***************************************************************************)
MaxMovements == 3

WithinLedger(d) ==
  /\ WithinBounds([d EXCEPT !.movements = {}])
  /\ Cardinality(d.movements) <= MaxMovements
  /\ Cardinality(d.zones) <= 1
  /\ Cardinality(d.tasks) <= 1

\* Movements of this month and the month before, of several categories, with
\* and without an invoice, one far above the others.
Movement(date, concept, category, type, amount, invoiceNumber) ==
  [date |-> date, concept |-> Str(concept), category |-> category, type |-> Str(type),
   amount |-> Num(amount), invoiceNumber |-> invoiceNumber, now |-> Today]

LedgerBodies ==
  {Movement(Undef, "urea", Undef, "Gasto", 10, Undef),
   Movement(Undef, "urea", Undef, "Gasto", 1000, Undef),
   Movement(Undef, "vacuna", Undef, "Gasto", 10, Str("F-1")),
   Movement(Undef, "venta", Str("Ventas"), "Ingreso", 100, Undef),
   Movement(Str("2024-03-01"), "compra", Undef, "Gasto", 10, Undef),
   Movement(Str("2024-02-10"), "venta", Str("Ventas"), "Ingreso", 500, Undef)}

ZoneNameA == "Potrero"
ComponentsBoth == [t |-> "object", animales |-> Str("vacas"), cultivos |-> Str("maíz")]

LedgerMapBodies ==
  {[view |-> Undef, points |-> Undef, lines |-> Undef, now |-> Today,
    zones |-> Array(<<Entry(Str(ClientZoneId), Str(ZoneNameA)) @@ [components |-> c]>>)] :
     c \in {Undef, ComponentsBoth}}

LedgerTaskBodies ==
  {[title |-> Str(t), zone |-> z, status |-> Undef, start |-> Str("2024-03-15"),
    due |-> Str("2024-03-15")] :
     t \in {"Podar", "Completar facturas faltantes en gastos"}, z \in {Undef}}

\* The requests of this specification come with no token or with the owner's,
\* for the farm or for an id that is too short.
LedgerReqs(op, bodies) ==
  {[op |-> op, token |-> tok, farmId |-> f] @@ b :
     tok \in {"none", IdOf("user", 1)}, f \in {IdOf("farm", 1), "farm9"}, b \in bodies}

PostLedgerMovement ==
  \E req \in LedgerReqs("PostMovement", LedgerBodies) :
    LET r == PostMovementH(db, req)
    IN WithinLedger(r.db) /\ db' = r.db /\ UNCHANGED inflight

PutLedgerMap ==
  \E req \in LedgerReqs("PutMap", LedgerMapBodies) :
    LET r == PutMapH(db, req)
    IN WithinLedger(r.db) /\ db' = r.db /\ UNCHANGED inflight

PostLedgerTask ==
  \E req \in LedgerReqs("PostTask", LedgerTaskBodies) :
    LET r == PostTaskH(db, req)
    IN WithinLedger(r.db) /\ db' = r.db /\ UNCHANGED inflight

PutLedgerTask ==
  \E req \in {[childId |-> c] @@ q : c \in {IdOf("task", 1), "x1"},
                                     q \in LedgerReqs("PutTask", TaskPatches)} :
    LET r == PutTaskH(db, req)
    IN WithinLedger(r.db) /\ db' = r.db /\ UNCHANGED inflight

InsightsRequests == LedgerReqs("GetInsights", ClockBodies)

GetLedgerInsights ==
  \E req \in InsightsRequests :
    \E r \in {GetInsightsH(db, req)} :
      WithinLedger(r.db) /\ db' = r.db /\ UNCHANGED inflight

NextInsights ==
  \/ Register(OwnerBodies)
  \/ PostFarm(FarmBodies)
  \/ PostLedgerMovement
  \/ PutLedgerMap
  \/ PostLedgerTask
  \/ PutLedgerTask
  \/ GetLedgerInsights

SpecInsights == Init /\ [][NextInsights]_vars

(***************************************************************************)
(* Tenant isolation and row-level scoping (claims C1 to C4)                *)
(***************************************************************************)
\* The status a request to a route under /api/farms/:id/... gets when its ids
\* and required body are checked before the row it names is looked up.
StatusUnlessMalformed(req, status) == IF Shape(req) = "ok" THEN status ELSE 400

NeedsOwner(d, req) ==
  FarmIdOf(req) # "-" =>
    /\ Access(d, req) = "anon" => Handle(d, req).status = 401
    /\ Handle(d, req).status \in {200, 201} => Access(d, req) = "owner"

\* C3: every request that names a farm needs a valid token and the ownership
\* of the farm; this includes POST /api/investigator/analyze.
C3_FarmRequestsNeedOwner ==
  /\ \A req \in FarmRequests : NeedsOwner(db, req)
  /\ \A req \in InvestigateRequests : NeedsOwner(db, req)

\* The other users' farms, and their rows, taken out of the store.
HideOthers(d, userId) ==
  DeleteFarms(d, {f.id : f \in {g \in d.farms : g.userId # userId}})

Answer(r) == <<r.status, r.body>>

DeletedFarmIds == Ids(db.farms) \ Ids(db'.farms)
DeletedUserIds == Ids(db.users) \ Ids(db'.users)

\* C6: the step that deletes a Farm row deletes every point, line, zone,
\* task, movement and asset of that farm and no row of another farm; the
\* step that deletes a User row deletes the user's farms, with their rows,
\* and no farm of another user.
C6_DeletionCascades ==
  [][/\ DeletedFarmIds # {} =>
         \A t \in ChildTables :
           db'[t] = {r \in db[t] : r.farmId \notin DeletedFarmIds}
     /\ DeletedUserIds # {} =>
         db'.farms = {f \in db.farms : f.userId \notin DeletedUserIds}
     /\ (DeletedFarmIds # {} /\ DeletedUserIds = {}) =>
         /\ Cardinality(DeletedFarmIds) = 1
         /\ db'.farms = {f \in db.farms : f.id \notin DeletedFarmIds}]_vars

\* A farm with stored rows, which can be deleted, beside another farm with
\* stored rows, owned by another user.
C6_Witness ==
  \E f, g \in db.farms :
    /\ f.userId # g.userId
    /\ \E t \in ChildTables : \E r \in db[t] : r.farmId = f.id
    /\ \E t \in ChildTables : \E r \in db[t] : r.farmId = g.id
    /\ \A t \in ChildTables :
         DeleteFarmRowDb(db, f.id)[t] = {r \in db[t] : r.farmId = g.id}
    /\ DeleteUserRowDb(db, f.userId).farms = {g}

\* The rows that are in a table of store e and were not in store d.
Written(d, e, t) == e[t] \ d[t]

\* C7: every farm's userId is the id of a stored user, every child row's
\* farmId is the id of a stored farm, and the rows a request writes carry the
\* farm id of its URL.
C7_ForeignKeysHold ==
  /\ \A f \in db.farms : f.userId \in Ids(db.users)
  /\ \A t \in ChildTables : \A r \in db[t] : r.farmId \in Ids(db.farms)
  /\ \A req \in CreateRequests :
       LET after == Handle(db, req).db
       IN \A t \in ChildTables : \A r \in Written(db, after, t) : r.farmId = req.farmId

\* With two farms stored, a request creates a row in one of them.
C7_Witness ==
  /\ Cardinality(db.farms) = 2
  /\ \E t \in ChildTables : db[t] # {}
  /\ \E req \in CreateRequests :
       /\ Handle(db, req).status \in {200, 201}
       /\ \E t \in ChildTables : Written(db, Handle(db, req).db, t) # {}

(***************************************************************************)
(* Farm names (claim C5)                                                   *)
(***************************************************************************)
\* The name a farm is to be stored under: the trimmed name cut to its first 80
\* characters, "Mi finca" when the body carries no name to speak of.
CleanedName(v) ==
  IF v.t = "string" /\ Trim(v.v) # ""
    THEN SubSeq(Trim(v.v), 1, Min(Len(Trim(v.v)), 80))
  ELSE "Mi finca"

\* C5: no two farms of one user have the same name; POST /api/farms with a
\* name whose cleaned form the user's farm already has is answered 409 and
\* creates nothing, and a farm it creates is stored under the cleaned name.
C5_FarmNamesUniquePerUser ==
  /\ \A f, g \in db.farms : (f.userId = g.userId /\ f.name = g.name) => f.id = g.id
  /\ \A req \in PostFarmRequests :
       LET r == Handle(db, req)
       IN /\ (\E f \in db.farms :
                 f.userId = req.token /\ f.name = CleanedName(req.name)) =>
               (r.status = 409 /\ r.db = db)
          /\ r.status = 201 =>
               \A f \in r.db.farms \ db.farms :
                 f.name = CleanedName(req.name) /\ f.userId = req.token

\* Two users hold farms of the same name, and a name that differs from a
\* stored one only by padding or past its 80th character is answered 409.
C5_Witness ==
  /\ \E f, g \in db.farms : f.userId # g.userId /\ f.name = g.name
  /\ \E req \in PostFarmRequests :
       /\ req.name.t = "string" /\ Len(req.name.v) > 80
       /\ \E f \in db.farms : f.userId = req.token /\ f.name # req.name.v
                                /\ f.name = CleanedName(req.name)
       /\ Handle(db, req).status = 409

(***************************************************************************)
(* Finance movements (claim C8)                                            *)
(***************************************************************************)
\* The value is a number, or a string that spells one.
SpellsNumber(v) ==
  \/ v.t = "number"
  \/ /\ v.t = "string"
     /\ Trim(RemoveCommas(v.v)) # ""
     /\ StringToNumber(RemoveCommas(v.v)).t = "number"

NumberSpelt(v) == IF v.t = "number" THEN v.n ELSE StringToNumber(RemoveCommas(v.v)).n

BadAmount(v) == ~SpellsNumber(v) \/ NumberSpelt(v) < 0

\* The type is neither of the two words (blanks around the word apart).
BadType(v) == ~(v.t = "string" /\ Trim(v.v) \in {"Ingreso", "Gasto"})

\* The request reaches the validation of the body: its user owns the farm and,
\* for a PUT, the addressed row is a row of the farm.
ReachesValidation(d, req) ==
  /\ Access(d, req) = "owner"
  /\ Shape(req) = "ok"
  /\ Child(d, req) \in {"own", "na"}

\* C8: every stored movement has type Ingreso or Gasto and an amount >= 0,
\* and a POST or PUT whose type is anything else, or whose amount is negative
\* or not a number, is answered 400.
C8_MovementsValidated ==
  /\ \A m \in db.movements : m.type \in {"Ingreso", "Gasto"} /\ m.amount \in Nat
  /\ \A req \in MovementRequests :
       ReachesValidation(db, req) =>
         LET given(v) == req.op = "PostMovement" \/ v # Undef
         IN ((given(req.type) /\ BadType(req.type))
             \/ (given(req.amount) /\ BadAmount(req.amount))) =>
              (Handle(db, req).status = 400 /\ Handle(db, req).db = db)

(***************************************************************************)
(* Task dates (claim C9)                                                   *)
(***************************************************************************)
\* The start and due a task has after the request: the body's date where it
\* carries one, the stored one otherwise (a POST has no stored one).
ResultingDate(d, req, side) ==
  IF req[side] # Undef THEN parseISODateOnlyToUTC(req[side])
  ELSE IF req.op = "PutTask"
    THEN Num((CHOOSE t \in d.tasks : t.id = req.childId)[side])
  ELSE Null

\* C9: every stored task has start <= due, and a POST or PUT that would leave
\* a task with start after due is answered 400 and changes nothing.
C9_TaskDatesOrdered ==
  /\ \A t \in db.tasks : t.start <= t.due
  /\ \A req \in TaskRequests :
       ReachesValidation(db, req) =>
         LET start == ResultingDate(db, req, "start")
             due == ResultingDate(db, req, "due")
         IN (start # Null /\ due # Null /\ start.n > due.n) =>
              (Handle(db, req).status = 400 /\ Handle(db, req).db = db)

\* A PUT that carries only one date, in order by itself and out of order with
\* the stored other date, is answered 400; so is a POST with start after due.
C9_Witness ==
  /\ \E req \in TaskRequests :
       /\ req.op = "PutTask" /\ ReachesValidation(db, req)
       /\ req.start # Undef /\ req.due = Undef
       /\ ResultingDate(db, req, "start") # Null
       /\ ResultingDate(db, req, "start").n > ResultingDate(db, req, "due").n
       /\ Handle(db, req).status = 400
  /\ \E req \in TaskRequests :
       /\ req.op = "PostTask" /\ ReachesValidation(db, req)
       /\ req.start = Str("2024-02-30") /\ req.due = Str("2024-02-01")
       /\ Handle(db, req).status = 400

(***************************************************************************)
(* PUT /api/farms/:id/map is all-or-nothing (claim C10)                    *)
(***************************************************************************)
\* C10: when a step of the map transaction fails, PUT /api/farms/:id/map is
\* answered 500 and the store is as it was before the request.
C10_MapAllOrNothing ==
  \A req \in PutMapRequests :
    LET r == Handle(db, req)
    IN /\ (Access(db, req) = "owner" /\ ~MapTxBody(db, req.farmId, req).ok) =>
            r.status = 500
       /\ r.status = 500 => r.db = db

\* A PUT map on a farm with stored rows fails after the transaction has
\* already deleted and written rows.
C10_Witness ==
  \E req \in PutMapRequests :
    /\ Handle(db, req).status = 500
    /\ \E r \in db.points \cup db.lines \cup db.zones : r.farmId = req.farmId
    /\ MapTxBody(db, req.farmId, req).db.points # db.points
    /\ MapTxBody(db, req.farmId, req).db.lines # db.lines

(***************************************************************************)
(* The stored map after PUT /api/farms/:id/map (claims C11 and C12)        *)
(***************************************************************************)
DataEntry(id, name, data) == [t |-> "object", id |-> id, name |-> name, data |-> data]

\* Payload lists whose entries have ids that are padded, that differ only by
\* padding, that are too short; names that are padded, absent, too long;
\* entries with and without a data field.
MatchLists ==
  {Undef, Array(<<>>),
   Array(<<Entry(Str(ClientPointId), Str("A")), Entry(Str("clientpt2"), Str("B"))>>),
   Array(<<Entry(Str(ClientPointId), Str("A")), Entry(Undef, Str("B")),
           Entry(Str("short"), Str("C"))>>),
   Array(<<Entry(Undef, Str("B")), Entry(Undef, Str("B"))>>),
   Array(<<DataEntry(Str(ClientPointId), Str("A"), Str("geo")),
           DataEntry(Undef, Str("B"), Str("geo"))>>),
   Array(<<Entry(Str(ClientPointId), Str(" A "))>>),
   Array(<<Entry(Str(ClientPointId), Undef)>>),
   Array(<<Entry(Str(ClientPointId), Str(Rep("n", MaxNameLen) \o "x"))>>),
   Array(<<Entry(Str(" " \o ClientPointId), Str("A"))>>),
   Array(<<Entry(Str(ClientPointId), Str("A")),
           Entry(Str(ClientPointId \o " "), Str("B"))>>),
   Array(<<Entry(Str(ClientPointId), Str("A")), Entry(Str(ClientPointId), Str("B"))>>)}

\* One table's list varies, the other two are absent.
MatchBodies ==
  {[view |-> Undef, points |-> l, lines |-> Undef, zones |-> Undef, now |-> Today + 1] :
     l \in MatchLists}
  \cup {[view |-> Undef, points |-> Undef, lines |-> l, zones |-> Undef, now |-> Today + 1] :
          l \in MatchLists}
  \cup {[view |-> Undef, points |-> Undef, lines |-> Undef, zones |-> l, now |-> Today + 1] :
          l \in MatchLists}
MatchRequests ==
  {[op |-> "PutMap", token |-> tok, farmId |-> f] @@ b :
     tok \in UserIds, f \in FarmIds, b \in MatchBodies}

MapTables ==
  {[table |-> "points", fallback |-> "Punto"], [table |-> "lines", fallback |-> "Linea"],
   [table |-> "zones", fallback |-> "Zona"]}

RowsOf(d, table, farmId) == {r \in d[table] : r.farmId = farmId}

\* The entry carries a string of 8 to 64 characters, blanks around it apart, as id.
HasValidId(p) ==
  /\ Field(p, "id").t = "string"
  /\ Len(Trim(Field(p, "id").v)) >= 8
  /\ Len(Trim(Field(p, "id").v)) <= 64

WithId(es) == {i \in 1..Len(es) : HasValidId(es[i])}

\* The id, name and data an entry is stored with: the id and the name without
\* the blanks around them, the name cut to 80 characters with the table's
\* default when there is none, the entry itself as data when it carries none.
StoredId(p) == Trim(Field(p, "id").v)
StoredName(p, fallback) ==
  LET v == Field(p, "name")
  IN IF v.t = "string" /\ Trim(v.v) # ""
       THEN SubSeq(Trim(v.v), 1, Min(Len(Trim(v.v)), 80))
     ELSE fallback
StoredData(p) == IF Field(p, "data") \in {Undef, Null} THEN p ELSE Field(p, "data")

\* The id, name and data of an entry as the payload spells them.
GivenId(p) == Field(p, "id").v
GivenName(p, fallback) ==
  IF Field(p, "name").t = "string" THEN Field(p, "name").v ELSE fallback

\* The id and name to look an entry up by: cleaned, or as the payload spells them.
IdBy(p, cleaned) == IF cleaned THEN StoredId(p) ELSE GivenId(p)
NameBy(p, fallback, cleaned) ==
  IF cleaned THEN StoredName(p, fallback) ELSE GivenName(p, fallback)

\* The ids of the entries that carry one are pairwise distinct.
DistinctIds(es, cleaned) ==
  \A i, j \in WithId(es) : i # j => IdBy(es[i], cleaned) # IdBy(es[j], cleaned)

\* After the save, the farm's rows of the table are one per entry: the entries
\* with an id under that id with their name and data, the others as rows with
\* ids that no row had; the farm's rows whose id did not come are gone.
StoredEqualsPayload(before, after, es, fallback, cleaned) ==
  LET ids == {IdBy(es[i], cleaned) : i \in WithId(es)}
      created == {r \in after : r.id \notin ids /\ r.id \notin Ids(before)}
  IN /\ Cardinality(after) = Len(es)
     /\ \A i \in WithId(es) :
          \E r \in after : /\ r.id = IdBy(es[i], cleaned)
                            /\ r.name = NameBy(es[i], fallback, cleaned)
                            /\ r.data = StoredData(es[i])
     /\ Cardinality(created) = Len(es) - Cardinality(WithId(es))
     /\ \A i \in (1..Len(es)) \ WithId(es) :
          \E r \in created : /\ r.name = NameBy(es[i], fallback, cleaned)
                              /\ r.data = StoredData(es[i])
     /\ \A r \in before : r.id \notin ids => r.id \notin Ids(after)

C12_CreatedAtPreserved ==
  \A req \in MatchRequests :
    Handle(db, req).status = 200 =>
      \A T \in MapTables :
        LET es == SafeArray(req[T.table])
        IN \A r \in RowsOf(db, T.table, req.farmId) :
             r.id \in {StoredId(es[i]) : i \in WithId(es)} =>
               \E r2 \in RowsOf(Handle(db, req).db, T.table, req.farmId) :
                 r2.id = r.id /\ r2.createdAt = r.createdAt

\* A save at a later time rewrites the name of a stored row.
C12_Witness ==
  \E req \in MatchRequests :
    \E r \in RowsOf(db, "points", req.farmId) :
      \E r2 \in RowsOf(Handle(db, req).db, "points", req.farmId) :
        /\ Handle(db, req).status = 200
        /\ r2.id = r.id /\ r2.name # r.name
        /\ r.createdAt # req.now /\ r2.createdAt = r.createdAt

(***************************************************************************)
(* C13                                                                     *)
(***************************************************************************)
DerivedOps == {"GetTaskSuggestions", "GetInsights", "GetZonesReport"}

\* The derived endpoints asked today and a month later.
DerivedRequests ==
  UNION {FarmReqs(op, {[now |-> t] : t \in {Today, Today + 31}}) : op \in DerivedOps}

\* The store with the rows of one farm only (and the users).
OnlyFarm(d, farmId) ==
  [users |-> d.users,
   farms |-> {f \in d.farms : f.id = farmId},
   points |-> {r \in d.points : r.farmId = farmId},
   lines |-> {r \in d.lines : r.farmId = farmId},
   zones |-> {r \in d.zones : r.farmId = farmId},
   tasks |-> {r \in d.tasks : r.farmId = farmId},
   movements |-> {r \in d.movements : r.farmId = farmId},
   assets |-> {r \in d.assets : r.farmId = farmId}]

\* C13: GET tasks/suggestions, GET finance/insights and GET zones/report leave
\* the store as it was, and their answer is the one they give over the rows of
\* the farm alone at the same date.
C13_DerivedAnswersFromFarmRows ==
  \A req \in DerivedRequests :
    LET r == Handle(db, req)
    IN /\ r.db = db
       /\ r.status = 200 =>
            r.data = Handle(OnlyFarm(db, req.farmId), req).data

\* A derived endpoint answers for a farm that has rows while another farm has
\* rows of its own.
C13_Witness ==
  \E req \in DerivedRequests :
    /\ Handle(db, req).status = 200
    /\ \E t \in {"tasks", "movements", "zones"} :
         /\ \E row \in db[t] : row.farmId = req.farmId
         /\ \E row \in db[t] : row.farmId # req.farmId

(***************************************************************************)
(* C15                                                                     *)
(***************************************************************************)
\* The email of the request, trimmed and in lower case, is the email of a user.
AlreadyRegistered(d, req) ==
  /\ req.email.t = "string"
  /\ \E u \in d.users : ToLowerCase(Trim(u.email)) = ToLowerCase(Trim(req.email.v))

UsablePassword(req) == Truthy(req.password) /\ Len(req.password.v) >= MinPasswordLen

NoSharedEmail(d) ==
  \A u1, u2 \in d.users :
    ToLowerCase(Trim(u1.email)) = ToLowerCase(Trim(u2.email)) => u1 = u2

\* C15 as stated: a registration for an email that is already registered, in
\* its trimmed lower-case form, is answered 409 and changes no user, and no two
\* users share such an email.
C15_RegisteredEmailAlways409 ==
  /\ \A req \in RegisterRequests :
       AlreadyRegistered(db, req) =>
         Handle(db, req).status = 409 /\ Handle(db, req).db = db
  /\ NoSharedEmail(db)

\* C15, amended: a registration for an email that is already registered is
\* answered 409 when it carries a password of MinPasswordLen characters or
\* more and 400 when it does not; either way it changes no user, and no two
\* users share a trimmed lower-case email.
C15_RegisteredEmailRefused ==
  /\ \A req \in RegisterRequests :
       AlreadyRegistered(db, req) =>
         /\ Handle(db, req).status = IF UsablePassword(req) THEN 409 ELSE 400
         /\ Handle(db, req).db = db
  /\ NoSharedEmail(db)

\* Two users are registered and a registration with a usable password comes
\* for the email of one of them, typed in another case and padded.
C15_Witness ==
  /\ Cardinality(db.users) = 2
  /\ \E req \in RegisterRequests :
       /\ AlreadyRegistered(db, req)
       /\ UsablePassword(req)
       /\ \A u \in db.users : u.email # req.email.v
       /\ Handle(db, req).status = 409

(***************************************************************************)
(* C14                                                                     *)
(***************************************************************************)
\* C14: the healthScore of every finance insights answer is a whole number
\* from 0 to 100, whatever movements the farm has stored.
C14_HealthScoreInRange ==
  \A req \in InsightsRequests :
    LET r == Handle(db, req)
    IN r.status = 200 => r.data.healthScore \in 0..100

\* A full ledger whose score is below the base: a month that lost money.
C14_Witness ==
  /\ Cardinality(db.movements) = MaxMovements
  /\ \E req \in InsightsRequests :
       LET r == Handle(db, req)
       IN /\ r.status = 200
          /\ r.data.healthScore < BaseScore
          /\ r.data.summary.balance < 0

(***************************************************************************)
(* Requests that overlap.  A handler is a chain of awaits: between its     *)
(* reads and its write another request may run.  inflight holds one record *)
(* per request that has arrived and not yet been forgotten: its position   *)
(* (pc), what it has read or prepared (work), the store as committed when  *)
(* it arrived (base), and its status once it is answered.  Two requests    *)
(* at most are open at a time, and the other routes are served only while  *)
(* none is.                                                                *)
(*                                                                         *)
(* The database is PostgreSQL (the migrations are written in its dialect)  *)
(* and no handler asks for an isolation level, so a transaction runs at    *)
(* READ COMMITTED: a statement sees what is committed when it starts plus  *)
(* the transaction's own writes, and waits for a row that another open     *)
(* transaction has written.  A step below runs all the statements of one   *)
(* table of PUT /map at once, which only leaves interleavings out.         *)
(***************************************************************************)
Slots == {1, 2}
TxTables == {"points", "lines", "zones"}
MaxMapRows == 2

Open == {x \in inflight : x.pc # "done"}
\* An arriving request takes the first slot that is free.
FreeSlots ==
  LET free == Slots \ {x.slot : x \in inflight}
  IN {s \in free : \A o \in free : s <= o}
NoWork == [none |-> TRUE]

\* A request arrives while the requests in Open are between two awaits.
Arrive(slot, req, pc, status, work) ==
  LET overlaps == pc # "done" /\ Open # {}
  IN inflight' =
       {IF overlaps /\ x \in Open THEN [x EXCEPT !.overlapped = TRUE] ELSE x :
          x \in inflight}
       \cup {[slot |-> slot, req |-> req, pc |-> pc, status |-> status,
              overlapped |-> overlaps, base |-> db, work |-> work]}

Move(x, pc, work) ==
  inflight' = (inflight \ {x}) \cup {[x EXCEPT !.pc = pc, !.work = work]}

Finish(x, status) ==
  inflight' = (inflight \ {x}) \cup {[x EXCEPT !.pc = "done", !.status = status]}

WithinOverlap(d) ==
  /\ Cardinality(d.users) <= MaxUsers
  /\ Cardinality(d.farms) <= 1
  /\ Cardinality(d.tasks) <= 1
  /\ \A t \in TxTables : Cardinality(d[t]) <= MaxMapRows
  /\ d.movements = {} /\ d.assets = {}

\* --- PUT /api/farms/:farmId/tasks/:taskId ---
OverlapTaskPatches ==
  {[title |-> Undef, zone |-> Undef, status |-> Undef, start |-> s, due |-> u] :
     <<s, u>> \in {<<Str("2024-01-18"), Undef>>, <<Undef, Str("2024-01-12")>>,
                  <<Str("2024-01-25"), Undef>>}}
OverlapTaskRequests ==
  {[op |-> "PutTask", token |-> tok, farmId |-> IdOf("farm", 1),
    childId |-> IdOf("task", 1)] @@ b :
     tok \in {IdOf("user", 1)}, b \in OverlapTaskPatches}

\* Everything up to the await of prisma.task.update: the checks run against
\* the row as findFirst read it, and data is built from the body alone.
BeginPutTask ==
  \E slot \in FreeSlots, req \in OverlapTaskRequests :
    \E r \in {PutTaskH(db, req)} :
      /\ IF r.status = 200
           THEN Arrive(slot, req, "update", 0, [data |-> TaskData(req)])
           ELSE Arrive(slot, req, "done", r.status, NoWork)
      /\ UNCHANGED db

\* prisma.task.update({ where: { id: taskId }, data }); a missing row throws
\* and the catch answers 500.
UpdateTask ==
  \E x \in inflight :
    /\ x.pc = "update"
    /\ IF \E t \in db.tasks : t.id = x.req.childId
         THEN /\ db' = [db EXCEPT !.tasks =
                          UpdateTaskRow(@, x.req.childId, x.work.data)]
              /\ Finish(x, 200)
         ELSE UNCHANGED db /\ Finish(x, 500)

\* --- POST /auth/register ---
OverlapRegisterBodies ==
  {[email |-> Str(e), password |-> Str(p)] :
     <<e, p>> \in {<<"a@x.io", "password1">>, <<" A@X.io ", "password1">>,
                   <<"a@x.io", "short">>}}
OverlapRegisterRequests == {[op |-> "Register"] @@ b : b \in OverlapRegisterBodies}

\* Everything up to the await of prisma.user.create: findUnique found no user.
BeginRegister ==
  \E slot \in FreeSlots, req \in OverlapRegisterRequests :
    \E r \in {RegisterH(db, req)} :
      /\ WithinOverlap(r.db)
      /\ IF r.status = 201
           THEN Arrive(slot, req, "create", 0, [email |-> CleanEmail(req.email.v)])
           ELSE Arrive(slot, req, "done", r.status, NoWork)
      /\ UNCHANGED db

\* prisma.user.create: the unique index on User.email (findUnique by email
\* needs one) refuses a second row, create throws and the catch answers 500.
CreateUser ==
  \E x \in inflight :
    /\ x.pc = "create"
    /\ IF \E u \in db.users : u.email = x.work.email
         THEN UNCHANGED db /\ Finish(x, 500)
         ELSE /\ db' = InsertUser(db, x.work.email)
              /\ WithinOverlap(db')
              /\ Finish(x, 201)

\* --- PUT /api/farms/:farmId/map ---
OverlapMapBodies ==
  {[view |-> v, points |-> Array(<<Entry(id, Str(n))>>), lines |-> Undef,
    zones |-> Undef, now |-> Today] :
     <<v, id, n>> \in {<<Undef, Undef, "A">>, <<Undef, Undef, "B">>,
                      <<ViewA, Undef, "A">>, <<ViewB, Undef, "B">>,
                      <<Undef, Str(ClientPointId), "C">>}}
OverlapMapRequests ==
  {[op |-> "PutMap", token |-> tok, farmId |-> IdOf("farm", 1)] @@ b :
     tok \in {"none", IdOf("user", 1)}, b \in OverlapMapBodies}

NoWrites == [t \in TxTables \cup {"farms"} |-> {}]

\* The rows of a table as a transaction sees them: the committed rows, less
\* the ones it deleted or rewrote, plus the ones it wrote.
Overlay(rows, deleted, written) ==
  {r \in rows : r.id \notin deleted \cup Ids(written)} \cup written

OtherTx(x) == {y \in Open \ {x} : y.req.op = "PutMap"}

\* The checks before prisma.$transaction, which then opens.
BeginPutMap ==
  \E slot \in FreeSlots, req \in OverlapMapRequests :
    \E r \in {PutMapH(db, req)} :
      /\ IF r.status \in {400, 401, 403}
           THEN Arrive(slot, req, "done", r.status, NoWork)
           ELSE Arrive(slot, req, "view", 0,
                       [lock |-> FALSE, deleted |-> NoWrites, written |-> NoWrites])
      /\ UNCHANGED db

\* if (view) await tx.farm.update(...): the update locks the row of the farm
\* until the transaction ends, and waits while another transaction holds it.
TxUpdateView ==
  \E x \in inflight :
    /\ x.pc = "view"
    /\ UNCHANGED db
    /\ IF ~Truthy(x.req.view) THEN Move(x, "points", x.work)
       ELSE /\ \A y \in OtherTx(x) : ~(y.work.lock /\ y.req.farmId = x.req.farmId)
            /\ Move(x, "points",
                    [x.work EXCEPT
                       !.lock = TRUE,
                       !.written.farms =
                          {f \in UpdateView(db.farms, x.req.farmId, x.req.view) :
                             f.id = x.req.farmId}])

NextTable == [points |-> "lines", lines |-> "zones", zones |-> "commit"]
TablePrefix == [points |-> "pont", lines |-> "line", zones |-> "zone"]
TableFallback == [points |-> "Punto", lines |-> "Linea", zones |-> "Zona"]

\* deleteMany and the upsert loop of one table.  The statements touch the
\* rows they delete, update or create; they wait while another open
\* transaction has written a row of that id, and a throw rolls back.
TxSyncTable ==
  \E x \in inflight :
    /\ x.pc \in TxTables
    /\ UNCHANGED db
    /\ LET t == x.pc
           seen == Overlay(db[t], x.work.deleted[t], x.work.written[t])
           theirs == UNION {y.work.written[t] : y \in OtherTx(x)}
           locked == UNION {y.work.deleted[t] \cup Ids(y.work.written[t]) :
                              y \in OtherTx(x)}
           entries == SafeArray(x.req[t])
           res == UpsertAll(DeleteMissing(seen, x.req.farmId, ClientIdsOf(entries)),
                            x.req.farmId, entries, TablePrefix[t], TableFallback[t],
                            t = "zones", x.req.now, seen \cup theirs)
           touched == (Ids(seen) \ Ids(res.rows)) \cup Ids(res.rows \ seen)
       IN /\ touched \cap locked = {}
          /\ IF ~res.ok THEN Finish(x, 500)
             ELSE Move(x, NextTable[t],
                       [x.work EXCEPT
                          !.deleted[t] = Ids(db[t]) \ Ids(res.rows),
                          !.written[t] = res.rows \ db[t]])

\* The callback returns: the writes of the transaction become the store.
TxCommit ==
  \E x \in inflight :
    /\ x.pc = "commit"
    /\ db' = [t \in DOMAIN db |->
                IF t \in DOMAIN x.work.written
                  THEN Overlay(db[t], x.work.deleted[t], x.work.written[t])
                  ELSE db[t]]
    /\ WithinOverlap(db')
    /\ Finish(x, 200)

\* The answered requests are forgotten once none is open.
Retire ==
  /\ inflight # {}
  /\ Open = {}
  /\ inflight' = {}
  /\ UNCHANGED db

Quiet == inflight = {}

NextOverlap ==
  \/ Quiet /\ PostFarm(FarmBodies)
  \/ Quiet /\ PostTask(TaskBodies)
  \/ BeginRegister
  \/ CreateUser
  \/ BeginPutTask
  \/ UpdateTask
  \/ BeginPutMap
  \/ TxUpdateView
  \/ TxSyncTable
  \/ TxCommit
  \/ Retire

SpecOverlap == Init /\ [][NextOverlap]_vars

(***************************************************************************)
(* C16, C17, C18: requests that overlap                                    *)
(***************************************************************************)
\* The pairs of answered requests to one route that were open together.
OverlappedPairs(op) ==
  {<<a, b>> \in inflight \X inflight :
     /\ a.slot < b.slot
     /\ a.req.op = op /\ b.req.op = op
     /\ a.overlapped /\ b.overlapped
     /\ a.pc = "done" /\ b.pc = "done"}

\* C16: a stored task has start <= due also after two updates of it that were
\* open together, one giving only start and the other only due.
C16_OverlappingUpdatesKeepDatesOrdered ==
  \A p \in OverlappedPairs("PutTask") :
    p[1].req.childId = p[2].req.childId =>
      \A t \in db.tasks : t.id = p[1].req.childId => t.start <= t.due

\* C18: of two registrations for one trimmed lower-case email that both found
\* no user before either created one, one creates the only row for that
\* email and the other is answered 409.
C18_OverlappingRegistrationsOneWinsOther409 ==
  \A p \in OverlappedPairs("Register") :
    CleanEmail(p[1].req.email.v) = CleanEmail(p[2].req.email.v) =>
      /\ Cardinality({u \in db.users : u.email = CleanEmail(p[1].req.email.v)}) = 1
      /\ {p[1].status, p[2].status} = {201, 409}

\* What the map of a farm holds, whatever ids and creation times the rows got.
MapContent(d, farmId) ==
  [t \in TxTables |->
     {[k \in DOMAIN r \ {"id", "createdAt"} |-> r[k]] : r \in FarmRows(d, t, farmId)}]

\* The store after request first and then request second, each served alone.
Serial(base, first, second) == PutMapH(PutMapH(base, first).db, second).db

\* C17: after two PUT /map of one farm that were open together, the points,
\* lines and zones of the farm are what one of the two serial orders leaves.
C17_OverlappingMapSavesSerialise ==
  \A p \in OverlappedPairs("PutMap") :
    p[1].req.farmId = p[2].req.farmId =>
      MapContent(db, p[1].req.farmId) \in
        {MapContent(Serial(p[1].base, p[1].req, p[2].req), p[1].req.farmId),
         MapContent(Serial(p[1].base, p[2].req, p[1].req), p[1].req.farmId)}

(***************************************************************************)
(* C20                                                                     *)
(***************************************************************************)
\* POST /tasks by the same user for the same farm with the actionPayload of a
\* suggestion as its body.
TaskFromPayload(req, p) ==
  [op |-> "PostTask", token |-> req.token, farmId |-> req.farmId,
   title |-> Str(p.title), zone |-> Str(p.zone), type |-> Str("Mantenimiento"),
   status |-> Str(p.status), start |-> Str(p.start), due |-> Str(p.due)]

SuggestionsOf(r) == {r.data.suggestions[i] : i \in 1..Len(r.data.suggestions)}

\* C20: once a task is created from the actionPayload of a finance suggestion
\* and is not completed, the next finance insights over the same data hold no
\* suggestion of the same code and zone.
C20_ActedSuggestionNotRepeated ==
  \A req \in InsightsRequests :
    LET r == Handle(db, req)
    IN r.status = 200 =>
         \A s \in SuggestionsOf(r) :
           LET post == PostTaskH(db, TaskFromPayload(req, s.actionPayload))
           IN post.status = 201 =>
                \A again \in SuggestionsOf(Handle(post.db, req)) :
                  ~(/\ again.code = s.code
                    /\ again.actionPayload.zone = s.actionPayload.zone)

(***************************************************************************)
(* C19                                                                     *)
(***************************************************************************)
\* Bodies that pass the checks of ids and ownership and fail a later one.
BadTaskPatches ==
  {[title |-> t, zone |-> Undef, status |-> Undef, start |-> a, due |-> Undef] :
     <<t, a>> \in {<<Str("  "), Undef>>, <<Undef, Str("2024-02-30")>>,
                   <<Undef, Str("2024-01-25")>>}}
BadTaskBodies ==
  {[title |-> t, zone |-> Undef, status |-> Undef, start |-> Str("2024-01-10"),
    due |-> u] :
     <<t, u>> \in {<<Undef, Str("2024-01-20")>>, <<Str("Podar"), Str("2024-01-05")>>}}
BadMovementPatches ==
  {[date |-> Undef, concept |-> c, category |-> Undef, type |-> t, amount |-> a] :
     <<c, t, a>> \in {<<Str(" "), Undef, Undef>>, <<Undef, Str("Otro"), Undef>>,
                      <<Undef, Undef, Str("abc")>>}}
BadMovementBodies ==
  {[date |-> Undef, concept |-> c, category |-> Undef, type |-> Str("Gasto"),
    amount |-> a, now |-> Today] :
     <<c, a>> \in {<<Undef, Num(5)>>, <<Str("urea"), Num(-1)>>}}
BadAssetPatches ==
  {[name |-> n, purchaseValue |-> Undef, usefulLifeYears |-> y, residualValue |-> Undef] :
     <<n, y>> \in {<<Str(" "), Undef>>, <<Undef, Num(MaxUsefulLifeYears + 1)>>}}
BadAssetBodies ==
  {[name |-> Undef, purchaseValue |-> Num(100), usefulLifeYears |-> Undef,
    residualValue |-> Undef]}

\* The requests to the routes that write tasks, movements, assets, the map
\* and the components of a zone: the ones Spec serves and the ones above.
WritingRequests ==
  ChildRequests \cup CreateRequests
  \cup ChildReqs("PutTask", "task", {}, BadTaskPatches)
  \cup FarmReqs("PostTask", BadTaskBodies)
  \cup ChildReqs("PutMovement", "movt", {}, BadMovementPatches)
  \cup FarmReqs("PostMovement", BadMovementBodies)
  \cup ChildReqs("PutAsset", "asst", {}, BadAssetPatches)
  \cup FarmReqs("PostAsset", BadAssetBodies)

RejectedStatuses == {400, 401, 403, 404}

\* C19: a request to a task, movement, asset, map or zone-components route
\* that is answered 400, 401, 403 or 404 leaves the store as it was.
C19_RejectedRequestsChangeNothing ==
  \A req \in WritingRequests :
    Handle(db, req).status \in RejectedStatuses => Handle(db, req).db = db

\* The owner's update of a stored task is refused for its body alone, and
\* another user's save of the components of a stored zone is refused 403.
\* Every status of RejectedStatuses is answered to some request.
C19_Witness ==
  /\ \E req \in WritingRequests :
       /\ req.op = "PutTask"
       /\ FindTask(db, req.childId, req.farmId) # {}
       /\ assertFarmOwner(db, req.farmId, req.token)
       /\ Handle(db, req).status = 400
  /\ \E req \in WritingRequests :
       /\ req.op = "PutZoneComponents"
       /\ req.components # Undef
       /\ \E z \in db.zones : z.id = req.childId /\ z.components # req.components
       /\ Handle(db, req).status = 403
  /\ \A st \in RejectedStatuses :
       \E req \in WritingRequests : Handle(db, req).status = st

(***************************************************************************)
(* The specification of the task suggestions: one farm whose map holds up  *)
(* to two zones with crops, animals, other components or none, and whose   *)
(* tasks are created from the payloads of the suggestions and completed.   *)
(***************************************************************************)
MaxSuggestionZones == 2
MaxSuggestionTasks == 2

WithinSuggestions(d) ==
  /\ Cardinality(d.users) <= 1
  /\ Cardinality(d.farms) <= 1
  /\ Cardinality(d.zones) <= MaxSuggestionZones
  /\ Cardinality(d.tasks) <= MaxSuggestionTasks
  /\ d.points = {} /\ d.lines = {} /\ d.movements = {} /\ d.assets = {}

\* The client names its zones: the first of a payload and the second.
ZoneEntry(n, name, components) ==
  [t |-> "object", id |-> Str("clientzn" \o ToString(n)), name |-> Str(name),
   components |-> components]

CropsOf(list) == [t |-> "object", cultivos |-> list]

\* Zones with a crop, with several crops, with animals, with a component that
\* is neither, and with none; some names and crops hold an underscore.
SuggestionZoneLists ==
  {<<ZoneEntry(1, "Lote_1", CropsOf(Str("B")))>>,
   <<ZoneEntry(1, "Lote_1", CropsOf(Str("B"))), ZoneEntry(2, "Lote", CropsOf(Str("1_B")))>>,
   <<ZoneEntry(1, "Vega", CropsOf(Array(<<Str("maíz"), Str(" Café ")>>)))>>,
   <<ZoneEntry(1, "Potrero", [t |-> "object", animales |-> Str("vacas")]),
     ZoneEntry(2, " Bodega ", [t |-> "object", riego |-> [t |-> "boolean", b |-> TRUE]])>>,
   <<ZoneEntry(1, "Monte", Undef)>>}

SuggestionMapBodies ==
  {[view |-> Undef, points |-> Undef, lines |-> Undef, now |-> Today,
    zones |-> Array(l)] : l \in SuggestionZoneLists}

SuggestionReqs(op, bodies) ==
  {[op |-> op, token |-> tok, farmId |-> IdOf("farm", 1)] @@ b :
     tok \in {"none", IdOf("user", 1)}, b \in bodies}

SuggestionRequests == SuggestionReqs("GetTaskSuggestions", ClockBodies)

\* POST /tasks by the same user for the same farm with the actionPayload of a
\* task suggestion as its body.
TaskFromSuggestion(req, p) ==
  [op |-> "PostTask", token |-> req.token, farmId |-> req.farmId,
   title |-> Str(p.title), zone |-> Str(p.zone), type |-> Str(p.type),
   status |-> Str(p.status), start |-> Str(p.start), due |-> Str(p.due)]

PutSuggestionMap ==
  \E req \in SuggestionReqs("PutMap", SuggestionMapBodies) :
    \E r \in {PutMapH(db, req)} :
      WithinSuggestions(r.db) /\ db' = r.db /\ UNCHANGED inflight

GetSuggestions ==
  \E req \in SuggestionRequests :
    \E r \in {GetTaskSuggestionsH(db, req)} :
      WithinSuggestions(r.db) /\ db' = r.db /\ UNCHANGED inflight

ZoneDrivenCodes ==
  {"ZONE_COMPONENT_CROP", "ZONE_COMPONENT_ANIMAL_FEED", "ZONE_COMPONENT_OTHER",
   "ZONE_NO_ACTIVE_TASKS"}

\* The user asks for the suggestions and creates the task that one of the
\* suggestions about a zone proposes.
ActOnSuggestion ==
  \E req \in SuggestionRequests :
    \E r \in {GetTaskSuggestionsH(db, req)} :
      /\ r.status = 200
      /\ \E s \in SuggestionsOf(r) :
           /\ s.code \in ZoneDrivenCodes
           /\ \E post \in {PostTaskH(db, TaskFromSuggestion(req, s.actionPayload))} :
                WithinSuggestions(post.db) /\ db' = post.db /\ UNCHANGED inflight

CompleteTask ==
  \E req \in {[childId |-> c] @@ q :
                c \in {IdOf("task", i) : i \in 1..MaxSuggestionTasks},
                q \in SuggestionReqs("PutTask", TaskPatches)} :
    \E r \in {PutTaskH(db, req)} :
      WithinSuggestions(r.db) /\ db' = r.db /\ UNCHANGED inflight

DeleteSuggestedTask ==
  \E req \in {[childId |-> c] @@ q :
                c \in {IdOf("task", i) : i \in 1..MaxSuggestionTasks},
                q \in SuggestionReqs("DeleteTask", NoBody)} :
    \E r \in {DeleteTaskH(db, req)} :
      WithinSuggestions(r.db) /\ db' = r.db /\ UNCHANGED inflight

NextSuggestions ==
  \/ Register(OwnerBodies)
  \/ PostFarm(FarmBodies)
  \/ PutSuggestionMap
  \/ GetSuggestions
  \/ ActOnSuggestion
  \/ CompleteTask
  \/ DeleteSuggestedTask

SpecSuggestions == Init /\ [][NextSuggestions]_vars

(***************************************************************************)
(* C21                                                                     *)
(***************************************************************************)
\* The zone-driven suggestions of an answer whose payload can be acted on.
ZoneDriven(r) ==
  {s \in SuggestionsOf(r) :
     s.code \in ZoneDrivenCodes /\ Len(s.actionPayload.title) <= MaxNameLen}

\* C21: once a task is created from the actionPayload of a zone-driven task
\* suggestion and is not completed, the next answer of GET tasks/suggestions
\* holds no suggestion with the id of that suggestion.
C21_ActedZoneSuggestionIdGone ==
  \A req \in SuggestionRequests :
    LET r == Handle(db, req)
    IN r.status = 200 =>
         \A s \in ZoneDriven(r) :
           LET post == PostTaskH(db, TaskFromSuggestion(req, s.actionPayload))
           IN post.status = 201 =>
                \A again \in SuggestionsOf(Handle(post.db, req)) : again.id # s.id

(***************************************************************************)
(* C22                                                                     *)
(***************************************************************************)
\* The movements of the farm dated in the UTC month of the request.
MonthMovements(d, req) ==
  {m \in d.movements :
     m.farmId = req.farmId /\ monthKeyUTC(m.date) = monthKeyUTC(req.now)}

\* The category of m has MinCategoryCount movements or more in the month and
\* the amount of m is above 2.5 times their average.
FarAboveCategoryAverage(m, month) ==
  LET same == {o \in month :
                 keywordCategory(o.concept, o.category)
                   = keywordCategory(m.concept, m.category)}
  IN /\ Cardinality(same) >= 3
     /\ 2 * m.amount * Cardinality(same) > 5 * Total(same)

ReportedUnusual(r) ==
  {r.data.anomalies[i].movementId :
     i \in {j \in 1..Len(r.data.anomalies) :
              r.data.anomalies[j].title = "Movimiento inusual"}}

\* C22: every "Movimiento inusual" anomaly of a finance insights answer names
\* a movement of the current UTC month whose category has three movements or
\* more in the month and whose amount is above 2.5 times the average of the
\* category in the month; and when the answer holds fewer than six anomalies,
\* every such movement is named.
C22_UnusualMovementRule ==
  \A req \in InsightsRequests :
    LET r == Handle(db, req)
        month == MonthMovements(db, req)
    IN r.status = 200 =>
         /\ \A id \in ReportedUnusual(r) :
              \E m \in month : m.id = id /\ FarAboveCategoryAverage(m, month)
         /\ Len(r.data.anomalies) < 6 =>
              \A m \in month :
                FarAboveCategoryAverage(m, month) => m.id \in ReportedUnusual(r)

\* Three movements of one category in the month: the one far above the
\* others is reported and another of the same category is not.
C22_Witness ==
  \E req \in InsightsRequests :
    LET r == Handle(db, req)
        month == MonthMovements(db, req)
    IN /\ r.status = 200
       /\ \E m, o \in month :
            /\ keywordCategory(m.concept, m.category)
                 = keywordCategory(o.concept, o.category)
            /\ m.id \in ReportedUnusual(r)
            /\ o.id \notin ReportedUnusual(r)

====
